---- MODULE Spec2Model ----
(***************************************************************************)
(* A model of the LangSmith data migration tool: the retrying HTTP client  *)
(* (utils/retry.py, core/api_client.py), the batch POST with binary        *)
(* splitting, the pagination driver (utils/pagination.py) and the session  *)
(* store with resume (utils/state.py, cli/main.py,                         *)
(* core/migrators/orchestrator.py).                                        *)
(*                                                                         *)
(* Each component has its own specification over the shared variables:     *)
(*   SpecHttp     one GET / POST / PATCH call through retry_on_failure     *)
(*   SpecBatch    post_batch_detailed and _post_batch_recursive            *)
(*   SpecPage     PaginationHelper.paginate                                *)
(*   SpecSession  dataset runs, the session file and resume, and the       *)
(*                experiment, run and feedback phases of the orchestrator  *)
(*   SpecUpsert   the create-or-update of one dataset (with its examples), *)
(*                experiment, annotation queue, rule, chart or prompt, and *)
(*                one run batch and one feedback record                    *)
(*   SpecRule     RulesMigrator.create_rule: scope mapping, evaluators and *)
(*                the payload it sends                                     *)
(*   SpecTrace    ExperimentMigrator.migrate_runs_streaming: the pages of  *)
(*                runs, parent and trace IDs, dotted_order                 *)
(*   SpecPrompt   PromptMigrator.migrate_prompt with all commits           *)
(*   SpecStats    MigrationState.get_statistics and StateManager.save on   *)
(*                a session state with items of any status                 *)
(*   SpecAttach   the attachments of one batch of new examples: download   *)
(*                to temporary files, upload, removal of the files         *)
(* The variables of the other components stay at their idle values.        *)
(***************************************************************************)
EXTENDS Integers, Sequences, FiniteSets, TLC

VARIABLES
    \* ---- one call through retry_on_failure.wrapper ----
    method,          \* "none" | "GET" | "POST" | "PATCH"
    pcR,             \* "idle" | "loop" | "returned" | "raised"
    attempt,         \* the loop variable of `for attempt in range(max_retries)`
    current_delay,   \* seconds
    last_exception,  \* the exception remembered for `raise last_exception`
    outcome,         \* what the call returned or raised
    log,             \* per attempt made: the response met and the sleep after it
    \* ---- post_batch_detailed ----
    pcB,             \* "idle" | "posting" | "done" | "raised"
    nItems,          \* len(items); item i of the input is the number i (0-based)
    batch_size,
    server,          \* how the destination answers the batch requests
    work,            \* pending _post_batch_recursive calls, next one first
    result,          \* BatchResult.items
    posts,           \* the sizes of the POST calls issued so far
    \* ---- PaginationHelper.paginate ----
    pcP,             \* "idle" | "running" | "done" | "raised"
    offset,
    seen_ids,
    iterations,
    lastPage,        \* what the last fetch produced (history, for the properties)
    lastFetch,       \* the last fetch and the items taken from it (history)
    \* ---- session store, orchestrator, resume ----
    pcS,             \* "idle" | "workers" | "experiments" | "runs" | "feedback"
                     \* | "finished" | "aborted"
    items,           \* MigrationState.items of the running process
    disk,            \* the session file: NoFile or the items last saved
    futures,         \* datasets submitted to the pool and not yet collected
    runNo,           \* number of runs started (the first run and the resumes)
    handled,         \* per dataset: in how many runs a worker migrated it
    resume_info,     \* what get_resume_info reported at the last resume
    selected,        \* dataset_ids of the current call of migrate_datasets_parallel
    include_experiments,
    id_mapping,      \* the local id_mapping of migrate_datasets_parallel
    id_mappings,     \* MigrationState.id_mappings of the running process
    returned,        \* what the workers collected in this call returned (history)
    expTodo,         \* all_experiments not yet processed
    experiment_id_mapping,
    runTodo,         \* source runs not yet processed
    run_id_mapping,
    run_batch,       \* the runs waiting for the next POST to /runs/batch
    fbTodo,          \* source feedback not yet processed
    sent,            \* the requests of this call that wrote experiments, runs, feedback
    \* ---- the upsert of one resource, migrated once or twice ----
    pcU,             \* "idle" | "ready"
    resource_kind,   \* "none" or one of Kinds
    config,          \* config.migration: skip_existing, dry_run
    source,          \* the source resource
    dest,            \* the destination's resources of that kind, as it lists them
    sections,        \* titles of the destination's dashboard sections
    requests,        \* the POST and PATCH requests of the latest migration
    existing,        \* whether the latest migration looked up, and the ID found
    ret,             \* what the latest migration returned
    calls,           \* migrations made so far
    before,          \* what the destination held when the latest migration began
    \* ---- one call of RulesMigrator.create_rule ----
    pcRule,          \* "idle" | "ready" | "done"
    rule,            \* the source rule
    rule_args,       \* target_project_id, strip_project_reference, ensure_project
    rule_env,        \* what source and destination hold, and config.migration
    rule_requests,   \* the write requests of the call, with their payloads
    rule_ret,        \* what the call returned
    \* ---- migrate_runs_streaming for one experiment ----
    pcT,             \* "idle" | "paging" | "page" | "last" | "done"
    runs_listing,    \* the runs in the order the source lists them
    page_limit,      \* runs per page of /runs/query
    cursor,          \* runs of the listing fetched so far
    run_page,        \* the runs of the current page still to process, sorted
    processed,       \* source runs in the order they were given their new ID
    run_ids,         \* run_id_mapping of the call
    trace_id_mapping,
    batch,           \* the migrated runs waiting for the next POST /runs/batch
    written,         \* the migrated runs the destination accepted
    \* ---- migrate_prompt with all commits ----
    pcPr,            \* "idle" | "commits" | "done"
    prompt_env,      \* config.migration and whether the destination has the repo
    commits,         \* the commits as get_prompt_commits returned them
    commit_index,    \* commits of the list handled so far
    pushes,          \* the payloads posted to /commits/{owner}/{repo}
    dest_latest,     \* the destination's latest commit hash of the repo
    commits_migrated,
    prompt_ret,      \* "none" | "identifier"
    \* ---- MigrationState.get_statistics and StateManager.save on one state ----
    pcStat,          \* "idle" | "loaded" | "computed" | "saved"
    state_items,     \* MigrationState.items of the state at hand
    statistics,      \* what get_statistics() gave
    state_file,      \* the session file save() left
    \* ---- one batch of new examples with attachments ----
    pcAtt,           \* "idle" | "downloading" | "batch" | "uploading" | "done"
    batch_len,       \* examples of the batch
    att_index,       \* examples of the batch handled so far in the current loop
    temp_files,      \* the temporary files that exist on disk
    downloaded,      \* per example: the temp paths download_attachments returned
    created_ids      \* the examples in the id_mapping of the batch

varsHttp == <<method, pcR, attempt, current_delay, last_exception, outcome, log>>
varsBatch == <<pcB, nItems, batch_size, server, work, result, posts>>
varsPage == <<pcP, offset, seen_ids, iterations, lastPage, lastFetch>>
varsSession == <<pcS, items, disk, futures, runNo, handled, resume_info, selected,
                 include_experiments, id_mapping, id_mappings, returned, expTodo,
                 experiment_id_mapping, runTodo, run_id_mapping, run_batch, fbTodo,
                 sent>>
varsUpsert == <<pcU, resource_kind, config, source, dest, sections, requests,
                existing, ret, calls, before>>
varsRule == <<pcRule, rule, rule_args, rule_env, rule_requests, rule_ret>>
varsTrace == <<pcT, runs_listing, page_limit, cursor, run_page, processed, run_ids,
               trace_id_mapping, batch, written>>
varsPrompt == <<pcPr, prompt_env, commits, commit_index, pushes, dest_latest,
                commits_migrated, prompt_ret>>
varsStats == <<pcStat, state_items, statistics, state_file>>
varsAttach == <<pcAtt, batch_len, att_index, temp_files, downloaded, created_ids>>
vars == <<varsHttp, varsBatch, varsPage, varsSession, varsUpsert, varsRule,
          varsTrace, varsPrompt, varsStats, varsAttach>>

\* What a step of one component leaves alone
restHttp ==
    <<varsBatch, varsPage, varsSession, varsUpsert, varsRule, varsTrace, varsPrompt,
      varsStats, varsAttach>>
restBatch ==
    <<varsHttp, varsPage, varsSession, varsUpsert, varsRule, varsTrace, varsPrompt,
      varsStats, varsAttach>>
restPage ==
    <<varsHttp, varsBatch, varsSession, varsUpsert, varsRule, varsTrace, varsPrompt,
      varsStats, varsAttach>>
restSession ==
    <<varsHttp, varsBatch, varsPage, varsUpsert, varsRule, varsTrace, varsPrompt,
      varsStats, varsAttach>>
restUpsert ==
    <<varsHttp, varsBatch, varsPage, varsSession, varsRule, varsTrace, varsPrompt,
      varsStats, varsAttach>>
restRule ==
    <<varsHttp, varsBatch, varsPage, varsSession, varsUpsert, varsTrace, varsPrompt,
      varsStats, varsAttach>>
restPrompt ==
    <<varsHttp, varsBatch, varsPage, varsSession, varsUpsert, varsRule, varsTrace,
      varsStats, varsAttach>>
restTrace ==
    <<varsHttp, varsBatch, varsPage, varsSession, varsUpsert, varsRule, varsPrompt,
      varsStats, varsAttach>>

restStats ==
    <<varsHttp, varsBatch, varsPage, varsSession, varsUpsert, varsRule, varsTrace,
      varsPrompt, varsAttach>>
restAttach ==
    <<varsHttp, varsBatch, varsPage, varsSession, varsUpsert, varsRule, varsTrace,
      varsPrompt, varsStats>>

\* Optional[number]: None is the empty set, a value x is {x}.
None == {}

Some(x) == {x}

Val(v) == CHOOSE x \in v : TRUE

Min(a, b) == IF a <= b THEN a ELSE b

(***************************************************************************)
(* utils/retry.py and the response handling of core/api_client.py          *)
(***************************************************************************)

\* MAX_BACKOFF_SECONDS = 60.0
MAX_BACKOFF_SECONDS == 60

\* retry_on_failure(max_retries=3, delay=1.0, backoff=2.0): the defaults
delay == 1

backoff == 2

\* @retry_on_failure(max_retries=3) on get and post
DefaultMaxRetries == 3

\* @retry_on_failure(max_retries=1) on patch
PatchMaxRetries == 1

\* The Retry-After header of a 429 response: absent, a text that float()
\* rejects, or the decimal text of a number.
RetryAfterValues == {0, 1, 30, 60, 61, 120}

RetryAfterHeaders ==
    {[present |-> FALSE, numeric |-> FALSE, value |-> 0],
     [present |-> TRUE, numeric |-> FALSE, value |-> 0]}
    \cup {[present |-> TRUE, numeric |-> TRUE, value |-> x] : x \in RetryAfterValues}

NoHeader == [present |-> FALSE, numeric |-> FALSE, value |-> 0]

\* What one attempt can meet: an HTTP response (status, whether the body is
\* JSON, the Retry-After header) or a network failure of the transport.
Statuses == {200, 401, 403, 404, 409, 422, 429, 500, 503}

Responses ==
    {[kind |-> "http", status |-> s, json |-> TRUE, retry_after |-> NoHeader] :
        s \in Statuses \ {429}}
    \cup {[kind |-> "http", status |-> 200, json |-> FALSE, retry_after |-> NoHeader]}
    \cup {[kind |-> "http", status |-> 429, json |-> TRUE, retry_after |-> h] :
            h \in RetryAfterHeaders}
    \cup {[kind |-> "network", status |-> 0, json |-> FALSE, retry_after |-> NoHeader]}

\* An exception value: its class, APIError.status_code (None when not set)
\* and RateLimitError.retry_after (None when not set).
Exc(cls, code, ra) == [tag |-> "exc", cls |-> cls, status_code |-> code, retry_after |-> ra]

Ok == [tag |-> "ok", cls |-> "json", status_code |-> None, retry_after |-> None]

NoException == [tag |-> "none", cls |-> "none", status_code |-> None, retry_after |-> None]

\* Python truthiness of an Optional[float] / Optional[int]: None and 0 are false.
Truthy(v) == v /= None /\ v /= Some(0)

\* float(retry_after_header) inside `if retry_after_header:` with the
\* ValueError swallowed: None for an absent or non-numeric header.
ParseRetryAfter(h) ==
    IF h.present /\ h.numeric THEN Some(h.value) ELSE None

\* EnhancedAPIClient._handle_response, and the transport error raised by
\* session.get/post/patch before it is reached.
handle_response(resp) ==
    IF resp.kind = "network" THEN Exc("ConnectionError", None, None)
    ELSE IF resp.status = 401 THEN Exc("AuthenticationError", Some(401), None)
    ELSE IF resp.status = 403 THEN Exc("AuthenticationError", Some(403), None)
    ELSE IF resp.status = 404 THEN Exc("NotFoundError", Some(404), None)
    ELSE IF resp.status = 409 THEN Exc("ConflictError", Some(409), None)
    ELSE IF resp.status = 429
        THEN Exc("RateLimitError", None, ParseRetryAfter(resp.retry_after))
    ELSE IF resp.status >= 400 THEN Exc("APIError", Some(resp.status), None)
    ELSE IF resp.json THEN Ok
    ELSE Exc("APIError", None, None)

\* The classes caught by `except APIError` once the Authentication and
\* Conflict clauses above it have not matched.
IsPlainAPIError(e) == e.cls \in {"APIError", "NotFoundError"}

RetriesMissingStatus(e) == ~Truthy(e.status_code) \/ Val(e.status_code) >= 500

\* `if e.status_code and e.status_code >= 500`
IsServerError(e) == Truthy(e.status_code) /\ Val(e.status_code) >= 500

SameRetriesForAll(m) == DefaultMaxRetries

max_retries(m) == IF m = "PATCH" THEN PatchMaxRetries ELSE DefaultMaxRetries

\* wait_time of the RateLimitError clause
RateLimitWait(e, cur) ==
    IF Truthy(e.retry_after)
        THEN Min(Val(e.retry_after), MAX_BACKOFF_SECONDS)
        ELSE Min(cur * 2, MAX_BACKOFF_SECONDS)

\* wait_time of the 5xx and network clauses
BackoffWait(cur) == Min(cur, MAX_BACKOFF_SECONDS)

ConstantDelay(cur) == cur

NextDelay(cur) == Min(cur * backoff, MAX_BACKOFF_SECONDS)

InitHttp ==
    /\ method = "none"
    /\ pcR = "idle"
    /\ attempt = 0
    /\ current_delay = delay
    /\ last_exception = NoException
    /\ outcome = NoException
    /\ log = <<>>

\* client.get / client.post / client.patch is called: wrapper() starts.
Call(m) ==
    /\ pcR = "idle"
    /\ method' = m
    /\ pcR' = "loop"
    /\ attempt' = 0
    /\ current_delay' = delay
    /\ last_exception' = NoException
    /\ outcome' = NoException
    /\ log' = <<>>
    /\ UNCHANGED restHttp

CallGet == Call("GET")

CallPost == Call("POST")

CallPatch == Call("PATCH")

\* One iteration of `for attempt in range(max_retries)`: the request is sent,
\* the response handled, and the matching except-clause run (its sleep
\* included).
Attempt ==
    /\ pcR = "loop"
    /\ attempt < max_retries(method)
    /\ \E resp \in Responses :
        LET e == handle_response(resp)
            entry(w) == [resp |-> resp, exc |-> e, wait |-> w]
        IN
        IF e.tag = "ok" THEN
            /\ pcR' = "returned"
            /\ outcome' = Ok
            /\ log' = Append(log, entry(None))
            /\ UNCHANGED <<attempt, current_delay, last_exception>>
        ELSE IF e.cls = "RateLimitError" THEN
            /\ last_exception' = e
            /\ log' = Append(log, entry(Some(RateLimitWait(e, current_delay))))
            /\ current_delay' = NextDelay(current_delay)
            /\ attempt' = attempt + 1
            /\ UNCHANGED <<pcR, outcome>>
        ELSE IF e.cls \in {"AuthenticationError", "ConflictError"} THEN
            /\ pcR' = "raised"
            /\ outcome' = e
            /\ log' = Append(log, entry(None))
            /\ UNCHANGED <<attempt, current_delay, last_exception>>
        ELSE IF IsPlainAPIError(e) /\ ~IsServerError(e) THEN
            /\ last_exception' = e
            /\ pcR' = "raised"
            /\ outcome' = e
            /\ log' = Append(log, entry(None))
            /\ UNCHANGED <<attempt, current_delay>>
        ELSE
            \* a 5xx APIError or a network error
            /\ last_exception' = e
            /\ IF attempt < max_retries(method) - 1
                THEN /\ log' = Append(log, entry(Some(BackoffWait(current_delay))))
                     /\ current_delay' = NextDelay(current_delay)
                ELSE /\ log' = Append(log, entry(None))
                     /\ UNCHANGED current_delay
            /\ attempt' = attempt + 1
            /\ UNCHANGED <<pcR, outcome>>
    /\ UNCHANGED method
    /\ UNCHANGED restHttp

\* "All retries exhausted": raise last_exception
Exhausted ==
    /\ pcR = "loop"
    /\ attempt >= max_retries(method)
    /\ pcR' = "raised"
    /\ outcome' = last_exception
    /\ UNCHANGED <<method, attempt, current_delay, last_exception, log>>
    /\ UNCHANGED restHttp

NextHttp == CallGet \/ CallPost \/ CallPatch \/ Attempt \/ Exhausted

(***************************************************************************)
(* core/api_client.py: post_batch_detailed and _post_batch_recursive       *)
(***************************************************************************)

MaxItems == 4

\* A call _post_batch_recursive(endpoint, items[lo : lo+n], result, lo)
Segment(lo, n) == [lo |-> lo, n |-> n]

SegItems(seg) == seg.lo .. (seg.lo + seg.n - 1)

RECURSIVE Batches(_, _, _)
\* `for i in range(0, len(items), batch_size)`: the slices items[i:i+batch_size]
\* with their start_index
Batches(i, N, bs) ==
    IF i >= N THEN <<>>
    ELSE <<Segment(i, Min(bs, N - i))>> \o Batches(i + bs, N, bs)

\* How the destination answers the batch requests.
\*   "reject_bad": a request is rejected (409 when err = "conflict", another
\*       API error otherwise) exactly when it holds an item of `bad`; any
\*       other request is answered 2xx with an object or a per-item array.
\*   "any": every request is answered arbitrarily.
Servers(N) ==
    {[mode |-> "reject_bad", bad |-> S, err |-> e] :
        S \in SUBSET (0 .. N - 1), e \in {"conflict", "api"}}
    \cup {[mode |-> "any", bad |-> {}, err |-> "none"]}

\* What self.post(endpoint, items) gives for a request of n items: a decoded
\* body (a dict, a list of some length with None at the positions `nulls`,
\* or another JSON value) or the exception the retrying post raises.
Body(t, len, nulls) == [t |-> t, len |-> len, nulls |-> nulls, cls |-> "none"]

Raise(cls) == [t |-> "raise", len |-> 0, nulls |-> {}, cls |-> cls]

ListBodies(n) ==
    {Body("list", k, nl) :
        k \in {j \in {n - 1, n, n + 1} : j >= 0},
        nl \in {{}, {0}}}

GoodBodies(n) == {Body("dict", 0, {}), Body("list", n, {})}

AnyPostOutcomes(n) ==
    {Body("dict", 0, {}), Body("other", 0, {})}
    \cup {b \in ListBodies(n) : b.nulls \subseteq 0 .. b.len - 1}
    \cup {Raise(c) :
            c \in {"ConflictError", "APIError", "RateLimitError", "ConnectionError"}}

PostOutcomes(srv, seg) ==
    IF srv.mode = "any" THEN AnyPostOutcomes(seg.n)
    ELSE IF SegItems(seg) \cap srv.bad /= {}
        THEN {Raise(IF srv.err = "conflict" THEN "ConflictError" ELSE "APIError")}
    ELSE GoodBodies(seg.n)

\* BatchItemResult
Success(data, index) ==
    [success |-> TRUE, data |-> data, error |-> "None", item_index |-> index]

Failure(error, index) ==
    [success |-> FALSE, data |-> "None", error |-> error, item_index |-> index]

\* "Normalize response to list": the length of `responses`
ResponsesLen(o, n) == IF o.t = "list" THEN o.len ELSE n

\* "Record successes": one entry per element of `responses`
RECURSIVE Recorded(_, _, _, _)
Recorded(o, i, len, start_index) ==
    IF i >= len THEN <<>>
    ELSE <<IF o.t = "list" /\ i \in o.nulls
              THEN Failure("Empty response from API", start_index + i)
              ELSE Success(IF o.t = "other" THEN "{}" ELSE "resp", start_index + i)>>
         \o Recorded(o, i + 1, len, start_index)

HeadAndRest(seg) == <<Segment(seg.lo, 1), Segment(seg.lo + 1, seg.n - 1)>>

HalvesSameStart(seg) ==
    LET mid == seg.n \div 2
    IN <<Segment(seg.lo, mid), Segment(seg.lo, seg.n - mid)>>

\* The split of a failed request: items[:mid] at start_index and items[mid:]
\* at start_index + mid
Halves(seg) ==
    LET mid == seg.n \div 2
    IN <<Segment(seg.lo, mid), Segment(seg.lo + mid, seg.n - mid)>>

\* The text recorded for a single item that failed
ErrorText(cls) ==
    IF cls = "ConflictError" THEN "Conflict: Resource conflict" ELSE "API request failed"

InitBatch ==
    /\ pcB = "idle"
    /\ nItems = 0
    /\ batch_size = 1
    /\ server = [mode |-> "any", bad |-> {}, err |-> "none"]
    /\ work = <<>>
    /\ result = <<>>
    /\ posts = <<>>

\* post_batch_detailed(endpoint, items, batch_size) is called
StartBatch ==
    /\ pcB = "idle"
    /\ \E N \in 0 .. MaxItems, bs \in 1 .. MaxItems :
        /\ nItems' = N
        /\ batch_size' = bs
        /\ \E srv \in Servers(N) : server' = srv
        /\ work' = Batches(0, N, bs)
    /\ result' = <<>>
    /\ posts' = <<>>
    /\ pcB' = "posting"
    /\ UNCHANGED restBatch

\* One call of _post_batch_recursive on a non-empty slice: the POST and the
\* handling of its outcome. The two recursive calls of a split run next, the
\* first half first.
PostSegment ==
    /\ pcB = "posting"
    /\ work /= <<>>
    /\ LET seg == Head(work)
       IN \E o \in PostOutcomes(server, seg) :
            /\ posts' = Append(posts, seg.n)
            /\ IF o.t /= "raise" THEN
                    /\ result' = result \o Recorded(o, 0, ResponsesLen(o, seg.n), seg.lo)
                    /\ work' = Tail(work)
                    /\ pcB' = pcB
               ELSE IF o.cls \in {"ConflictError", "APIError"} THEN
                    IF seg.n = 1 THEN
                        /\ result' = Append(result, Failure(ErrorText(o.cls), seg.lo))
                        /\ work' = Tail(work)
                        /\ pcB' = pcB
                    ELSE
                        /\ work' = Halves(seg) \o Tail(work)
                        /\ UNCHANGED <<result, pcB>>
               ELSE
                    \* RateLimitError and network errors are not APIErrors:
                    \* they leave _post_batch_recursive and post_batch_detailed
                    /\ pcB' = "raised"
                    /\ UNCHANGED <<result, work>>
    /\ UNCHANGED <<nItems, batch_size, server>>
    /\ UNCHANGED restBatch

\* `return result`
BatchReturn ==
    /\ pcB = "posting"
    /\ work = <<>>
    /\ pcB' = "done"
    /\ UNCHANGED <<nItems, batch_size, server, work, result, posts>>
    /\ UNCHANGED restBatch

NextBatch == StartBatch \/ PostSegment \/ BatchReturn

\* BatchResult.get_responses: sorted by item_index, None for a failed item
RECURSIVE InsertSorted(_, _)
InsertSorted(x, s) ==
    IF s = <<>> THEN <<x>>
    ELSE IF x.item_index < Head(s).item_index THEN <<x>> \o s
    ELSE <<Head(s)>> \o InsertSorted(x, Tail(s))

RECURSIVE SortedByIndex(_)
SortedByIndex(s) ==
    IF s = <<>> THEN <<>>
    ELSE InsertSorted(s[Len(s)], SortedByIndex(SubSeq(s, 1, Len(s) - 1)))

get_responses(r) ==
    LET sorted == SortedByIndex(r)
    IN [i \in 1 .. Len(sorted) |->
            IF sorted[i].success THEN sorted[i].data ELSE "None"]

(***************************************************************************)
(* utils/pagination.py: PaginationHelper                                   *)
(***************************************************************************)

\* max_iterations = 10000
max_iterations == 10000

\* The page_size passed to paginate (the `limit` sent to the server)
PageSize == 2

\* The IDs the source can put on an item (under `id`, `_id` or `uuid`)
Ids == {"a"}

\* An item of a page: a dict carrying one of the IDs, an item without a usable
\* ID ("noid": a dict with none of the three keys or a falsy one, or a
\* non-dict value), or a JSON null ("null").
ItemKinds == Ids \cup {"noid", "null"}

RECURSIVE SeqsUpTo(_, _)
SeqsUpTo(S, n) ==
    IF n = 0 THEN {<<>>}
    ELSE LET shorter == SeqsUpTo(S, n - 1)
         IN shorter \cup {Append(q, x) : q \in {r \in shorter : Len(r) = n - 1}, x \in S}

Pages == SeqsUpTo(ItemKinds, PageSize)

\* What fetch_fn(endpoint, params) gives: an exception ("error", or the
\* AuthenticationError of a 401/403 answer), or a decoded body:
\*   "array"                    a bare array
\*   "items" "data" "results"   an object holding the list under that key
\*   "object"                   an object with none of the three keys
\*   "items_null"               an object whose `items` is null
\*   "scalar"                   a JSON value that is neither array nor object
\* `self` is the item the body is when it is taken as a single item. The
\* fetches draw the keyed list from `items` only: _extract_items treats
\* `data` and `results` alike.
Fetched(shape, list, self) == [shape |-> shape, list |-> list, self |-> self]

FetchResults ==
    {Fetched(sh, pg, "noid") : sh \in {"array", "items"}, pg \in Pages}
    \cup {Fetched("object", <<>>, k) : k \in Ids \cup {"noid"}}
    \cup {Fetched("items_null", <<>>, k) : k \in Ids \cup {"noid"}}
    \cup {Fetched("scalar", <<>>, "noid"), Fetched("error", <<>>, "noid"),
          Fetched("authentication_error", <<>>, "noid")}

\* PaginationHelper._extract_items
extract_items(response) ==
    IF response.shape = "array" THEN response.list
    ELSE IF response.shape \in {"items", "data", "results"} THEN response.list
    ELSE IF response.shape = "object" THEN <<>>
    ELSE IF response.shape = "items_null" THEN <<response.self>>
    ELSE <<>>

\* item_id of the loop body: None for an item without a usable ID
HasId(item) == item \in Ids

RECURSIVE ScanPageNoGuard(_, _, _, _)
ScanPageNoGuard(page, i, seen, count) ==
    IF i > Len(page) THEN [seen |-> seen, new_items_count |-> count]
    ELSE LET item == page[i]
         IN IF item = "null" THEN ScanPageNoGuard(page, i + 1, seen, count)
            ELSE ScanPageNoGuard(page, i + 1,
                                 IF HasId(item) THEN seen \cup {item} ELSE seen,
                                 count + 1)

\* The `for item in items` loop: new_items_count and seen_ids after it
RECURSIVE ScanPage(_, _, _, _)
ScanPage(page, i, seen, count) ==
    IF i > Len(page) THEN [seen |-> seen, new_items_count |-> count]
    ELSE LET item == page[i]
         IN IF item = "null" THEN ScanPage(page, i + 1, seen, count)
            ELSE IF HasId(item) /\ item \in seen THEN ScanPage(page, i + 1, seen, count)
            ELSE ScanPage(page, i + 1,
                          IF HasId(item) THEN seen \cup {item} ELSE seen,
                          count + 1)

\* What the properties record about a fetch, stated on the page itself
PageFacts(failed, page, seen) ==
    [failed |-> failed,
     empty |-> ~failed /\ Len(page) = 0,
     short |-> ~failed /\ Len(page) < PageSize,
     nothing_new |-> ~failed /\ \A i \in 1 .. Len(page) :
                        page[i] = "null" \/ (page[i] \in Ids /\ page[i] \in seen)]

NoPage == [failed |-> FALSE, empty |-> FALSE, short |-> FALSE, nothing_new |-> FALSE]

\* What the properties record about a fetch and the items taken from it:
\* the shape of what fetch_fn gave, whether the items are the list the body
\* holds, and whether they are the one-element page made of the body
FetchFacts(response, extracted) ==
    [shape |-> response.shape,
     is_list |-> extracted = response.list,
     is_body |-> extracted = <<response.self>>]

NoFetch == [shape |-> "none", is_list |-> FALSE, is_body |-> FALSE]

InitPage ==
    /\ pcP = "idle"
    /\ offset = 0
    /\ seen_ids = {}
    /\ iterations = 0
    /\ lastPage = NoPage
    /\ lastFetch = NoFetch

\* paginate(fetch_fn, endpoint, params, page_size) starts
StartPaginate ==
    /\ pcP = "idle"
    /\ pcP' = "running"
    /\ offset' = 0
    /\ seen_ids' = {}
    /\ iterations' = 0
    /\ lastPage' = NoPage
    /\ lastFetch' = NoFetch
    /\ UNCHANGED restPage

\* One pass of the `while iterations < max_iterations` body
FetchPage ==
    /\ pcP = "running"
    /\ iterations < max_iterations
    /\ iterations' = iterations + 1
    /\ \E response \in FetchResults :
        \* `except Exception: break`
        IF response.shape \in {"error", "authentication_error"} THEN
            /\ lastPage' = PageFacts(TRUE, <<>>, seen_ids)
            /\ lastFetch' = FetchFacts(response, <<>>)
            /\ pcP' = "done"
            /\ UNCHANGED <<offset, seen_ids>>
        ELSE
            LET page == extract_items(response)
                scan == ScanPage(page, 1, seen_ids, 0)
            IN /\ lastPage' = PageFacts(FALSE, page, seen_ids)
               /\ lastFetch' = FetchFacts(response, page)
               /\ IF page = <<>> THEN
                      /\ pcP' = "done"
                      /\ UNCHANGED <<offset, seen_ids>>
                  ELSE
                      /\ seen_ids' = scan.seen
                      /\ IF scan.new_items_count = 0 THEN
                             pcP' = "done" /\ UNCHANGED offset
                         ELSE IF Len(page) < PageSize THEN
                             pcP' = "done" /\ UNCHANGED offset
                         ELSE
                             pcP' = "running" /\ offset' = offset + Len(page)
    /\ UNCHANGED restPage

\* The loop condition fails: the generator ends
IterationCeiling ==
    /\ pcP = "running"
    /\ iterations >= max_iterations
    /\ pcP' = "done"
    /\ UNCHANGED <<offset, seen_ids, iterations, lastPage, lastFetch>>
    /\ UNCHANGED restPage

NextPage == StartPaginate \/ FetchPage \/ IterationCeiling

(***************************************************************************)
(* utils/state.py, cli/main.py (datasets, resume) and                      *)
(* core/migrators/orchestrator.py (migrate_datasets_parallel,              *)
(* _migrate_experiments_for_datasets), with the run and feedback loops of  *)
(* core/migrators/experiment.py and core/migrators/feedback.py             *)
(***************************************************************************)

\* The source datasets a run can select
Datasets == {"d1", "d2", "d3"}

\* Runs (the first run and the resumes) the model follows
MaxRuns == 4

\* get_failed_items(max_attempts=3)
max_attempts == 3

\* MigrationStatus: the member names and their values
StatusNames == {"PENDING", "IN_PROGRESS", "COMPLETED", "FAILED", "SKIPPED"}

StatusValue(name) ==
    CASE name = "PENDING" -> "pending"
      [] name = "IN_PROGRESS" -> "in_progress"
      [] name = "COMPLETED" -> "completed"
      [] name = "FAILED" -> "failed"
      [] name = "SKIPPED" -> "skipped"

\* MigrationStatus(value)
StatusOfValue(value) == CHOOSE name \in StatusNames : StatusValue(name) = value

\* MigrationItem(id, type, name, source_id): the defaults of a new item
NewItem(type) ==
    [type |-> type, status |-> "PENDING", attempts |-> 0,
     error |-> "None", destination_id |-> "None"]

\* A dict with key k set to v
Put(f, k, v) == [x \in DOMAIN f \cup {k} |-> IF x = k THEN v ELSE f[x]]

NoItems == [x \in {} |-> NewItem("dataset")]

\* An empty dict of IDs
EmptyMap == [x \in {} |-> "None"]

\* dict.get(k): the value, or None
Get(f, k) == IF k \in DOMAIN f THEN f[k] ELSE "None"

ReplaceMap(old, new) == new

\* dict.update(new): the keys of new are set, the others kept
MergeMap(old, new) ==
    [x \in DOMAIN old \cup DOMAIN new |-> IF x \in DOMAIN new THEN new[x] ELSE old[x]]

\* MigrationState.id_mappings of a new session. A kind without entries and
\* a kind that is not a key of the dict are not told apart.
NoMappings == [dataset |-> EmptyMap, experiment |-> EmptyMap, examples |-> EmptyMap]

\* MigrationState.add_item
add_item(its, id, item) == Put(its, id, item)

\* MigrationState.update_item_status (the item fields it changes)
update_item_status(its, id, status, destination_id, error) ==
    IF id \in DOMAIN its THEN
        Put(its, id,
            [type |-> its[id].type,
             status |-> status,
             attempts |-> its[id].attempts + 1,
             error |-> IF error /= "None" THEN error ELSE its[id].error,
             destination_id |-> IF destination_id /= "None"
                                   THEN destination_id ELSE its[id].destination_id])
    ELSE its

\* MigrationState.update_item_status (the id_mappings entry it sets):
\* id_mappings[item.type][item.source_id] = destination_id
update_id_mappings(maps, its, id, destination_id) ==
    IF id \in DOMAIN its /\ destination_id /= "None"
        THEN [maps EXCEPT ![its[id].type] = Put(@, id, destination_id)]
        ELSE maps

\* MigrationState.get_pending_items()
get_pending_items(its) == {k \in DOMAIN its : its[k].status = "PENDING"}

\* MigrationState.get_failed_items()
get_failed_items(its) ==
    {k \in DOMAIN its : its[k].status = "FAILED" /\ its[k].attempts < max_attempts}

\* The keys of a by_type entry: total, completed, failed, pending
ByTypeKeys == {"completed", "failed", "pending"}

CountStatus(its, value) ==
    Cardinality({k \in DOMAIN its : StatusValue(its[k].status) = value})

\* MigrationState.get_statistics: the counts, or the KeyError of
\* stats["by_type"][item.type][item.status.value.lower()] += 1
get_statistics(its) ==
    [raised |-> \E k \in DOMAIN its : StatusValue(its[k].status) \notin ByTypeKeys,
     total |-> Cardinality(DOMAIN its),
     completed |-> CountStatus(its, "completed"),
     failed |-> CountStatus(its, "failed"),
     pending |-> CountStatus(its, "pending"),
     in_progress |-> CountStatus(its, "in_progress"),
     skipped |-> CountStatus(its, "skipped")]

ResumeInfoFailedOnly(its) ==
    LET stats == get_statistics(its)
    IN [raised |-> stats.raised,
        total_items |-> stats.total,
        completed |-> stats.completed,
        failed |-> stats.failed,
        pending |-> stats.pending,
        can_resume |-> ~stats.raised /\ stats.failed > 0]

\* StateManager.get_resume_info
get_resume_info(its) ==
    LET stats == get_statistics(its)
    IN [raised |-> stats.raised,
        total_items |-> stats.total,
        completed |-> stats.completed,
        failed |-> stats.failed,
        pending |-> stats.pending,
        can_resume |-> ~stats.raised /\ (stats.pending > 0 \/ stats.failed > 0)]

NoResumeInfo ==
    [raised |-> FALSE, total_items |-> 0, completed |-> 0, failed |-> 0,
     pending |-> 0, can_resume |-> FALSE]

\* MigrationItem.to_dict / from_dict over all items: the status is written as
\* its value and read back through MigrationStatus(value)
ItemsToDict(its) ==
    [k \in DOMAIN its |->
        [type |-> its[k].type, status |-> StatusValue(its[k].status),
         attempts |-> its[k].attempts, error |-> its[k].error,
         destination_id |-> its[k].destination_id]]

ItemsFromDict(data) ==
    [k \in DOMAIN data |->
        [type |-> data[k].type, status |-> StatusOfValue(data[k].status),
         attempts |-> data[k].attempts, error |-> data[k].error,
         destination_id |-> data[k].destination_id]]

\* The session file
NoFile ==
    [exists |-> FALSE, complete |-> FALSE, items |-> ItemsToDict(NoItems),
     id_mappings |-> NoMappings]

\* open(state_file, 'w'): the file exists and is empty; what a process that
\* stops before json.dump has written everything leaves behind
Truncated ==
    [exists |-> TRUE, complete |-> FALSE, items |-> ItemsToDict(NoItems),
     id_mappings |-> NoMappings]

\* StateManager.save: open(state_file, 'w') empties the file, then
\* json.dump(to_dict()) writes it; to_dict() embeds get_statistics()
save(its, maps) ==
    IF get_statistics(its).raised
        THEN Truncated
        ELSE [exists |-> TRUE, complete |-> TRUE, items |-> ItemsToDict(its),
              id_mappings |-> maps]

\* StateManager.load_session: the items
load_session(file) == ItemsFromDict(file.items)

\* StateManager.load_session: the id_mappings
load_id_mappings(file) == file.id_mappings

\* The registration loop of migrate_datasets_parallel: a new MigrationItem
\* per selected dataset, added under the id dataset_<id>
RECURSIVE RegisterAll(_, _)
RegisterAll(its, ids) ==
    IF ids = {} THEN its
    ELSE LET d == CHOOSE x \in ids : TRUE
         IN RegisterAll(add_item(its, d, NewItem("dataset")), ids \ {d})

\* items_to_process of resume, restricted to the dataset items
ResumeDatasetIds(its) ==
    {k \in get_pending_items(its) \cup get_failed_items(its) : its[k].type = "dataset"}

\* ---- the source content and the results of the workers ----

\* The source examples of a dataset
ExamplesOf(d) == {d \o "_x1"}

\* The destination ID a migrated record gets
DestId(x) == "dest_" \o x

\* What a worker can return as example_mapping: the examples it migrated
ExampleMappings(d) ==
    {[x \in s |-> DestId(x)] : s \in SUBSET ExamplesOf(d)}

NoReturns == [x \in {} |-> [new_id |-> "None", example_mapping |-> EmptyMap]]

\* The source experiments: list_experiments(dataset_id)
Experiments == {"e1", "e2"}

reference_dataset(e) == IF e = "e1" THEN "d1" ELSE "d2"

\* all_experiments: the experiments of the selected datasets
AllExperiments(sel) ==
    (IF "d1" \in sel THEN <<"e1">> ELSE <<>>) \o (IF "d2" \in sel THEN <<"e2">> ELSE <<>>)

\* The runs POST /runs/query returns for an experiment, sorted by
\* dotted_order. One run of e1 carries the session_id of another session.
SourceRuns(e) ==
    IF e = "e1"
        THEN <<[id |-> "r1", session_id |-> "e1", parent_run_id |-> "None"],
               [id |-> "r2", session_id |-> "e1", parent_run_id |-> "r1"],
               [id |-> "r3", session_id |-> "e9", parent_run_id |-> "None"]>>
        ELSE <<[id |-> "r4", session_id |-> "e2", parent_run_id |-> "None"]>>

\* list_feedback_for_session: feedback on a migrated run, feedback without
\* a run_id, and feedback on a run that was not migrated
SourceFeedback(e) ==
    IF e = "e1"
        THEN <<[key |-> "f1", run_id |-> "r1"],
               [key |-> "f2", run_id |-> "None"],
               [key |-> "f3", run_id |-> "r3"]>>
        ELSE <<[key |-> "f4", run_id |-> "r4"]>>

\* config.migration.batch_size, for the runs sent to /runs/batch
RunBatchSize == 2

\* The runs queried by migrate_runs_streaming: those of each key of the
\* experiment mapping, in order
AllRuns(mapping) ==
    (IF "e1" \in DOMAIN mapping THEN SourceRuns("e1") ELSE <<>>)
        \o (IF "e2" \in DOMAIN mapping THEN SourceRuns("e2") ELSE <<>>)

\* The feedback listed by migrate_feedback_for_experiments, likewise
AllFeedback(mapping) ==
    (IF "e1" \in DOMAIN mapping THEN SourceFeedback("e1") ELSE <<>>)
        \o (IF "e2" \in DOMAIN mapping THEN SourceFeedback("e2") ELSE <<>>)

\* One request to the destination: the records it carries, each with the
\* parent reference written into it
Write(kind, records) == [kind |-> kind, records |-> records]

\* migrated_run: the fields of the payload that refer to other records
MigratedRun(run, exp_mapping, run_mapping) ==
    [src |-> run.id,
     parent |-> exp_mapping[run.session_id],
     parent_run_id |-> IF run.parent_run_id /= "None"
                          THEN Get(run_mapping, run.parent_run_id) ELSE "None"]

\* migrated_fb: run_id is the mapped run, or None for a feedback that has
\* no run_id in the source
MigratedFeedback(fb, run_mapping) ==
    [src |-> fb.key,
     parent |-> IF fb.run_id /= "None" THEN run_mapping[fb.run_id] ELSE "None"]

EndsEarly(todo) == TRUE

\* A `for` loop over todo is left when nothing of it remains
LoopEnded(todo) == todo = <<>>

InitSession ==
    /\ pcS = "idle"
    /\ items = NoItems
    /\ disk = NoFile
    /\ futures = {}
    /\ runNo = 0
    /\ handled = [d \in Datasets |-> [runs |-> 0, ok |-> FALSE]]
    /\ resume_info = NoResumeInfo
    /\ selected = {}
    /\ include_experiments = FALSE
    /\ id_mapping = EmptyMap
    /\ id_mappings = NoMappings
    /\ returned = NoReturns
    /\ expTodo = <<>>
    /\ experiment_id_mapping = EmptyMap
    /\ runTodo = <<>>
    /\ run_id_mapping = EmptyMap
    /\ run_batch = <<>>
    /\ fbTodo = <<>>
    /\ sent = <<>>

\* The locals of a new call of migrate_datasets_parallel
NewCall ==
    /\ id_mapping' = EmptyMap
    /\ returned' = NoReturns
    /\ expTodo' = <<>>
    /\ experiment_id_mapping' = EmptyMap
    /\ runTodo' = <<>>
    /\ run_id_mapping' = EmptyMap
    /\ run_batch' = <<>>
    /\ fbTodo' = <<>>
    /\ sent' = <<>>

\* The `datasets` command: create_session (which saves the empty session),
\* the registration loop and the submission of one worker per dataset. When
\* get_dataset raises in the registration loop (after the datasets of reg
\* were registered) the exception leaves migrate_datasets_parallel and the
\* command ends there.
RunDatasets ==
    /\ pcS = "idle"
    /\ \E sel \in SUBSET Datasets \ {{}}, reg \in SUBSET Datasets, exps \in BOOLEAN :
        /\ reg \subseteq sel
        /\ selected' = sel
        /\ include_experiments' = exps
        /\ disk' = save(NoItems, NoMappings)
        /\ items' = RegisterAll(NoItems, reg)
        /\ IF reg = sel
              THEN /\ futures' = sel
                   /\ pcS' = "workers"
              ELSE /\ futures' = {}
                   /\ pcS' = "finished"
    /\ runNo' = runNo + 1
    /\ id_mappings' = NoMappings
    /\ NewCall
    /\ UNCHANGED <<handled, resume_info>>
    /\ UNCHANGED restSession

\* One turn of `for future in as_completed(futures)`: the worker of dataset d
\* has returned (new_id, example_mapping) or raised; the local id_mapping,
\* the item and the id_mappings of the session are updated under the lock
\* and the session is saved.
Collect ==
    /\ pcS = "workers"
    /\ \E d \in futures, ok \in BOOLEAN :
      \E example_mapping \in ExampleMappings(d) :
        /\ ok \/ example_mapping = EmptyMap
        /\ IF ok
              THEN /\ id_mapping' = Put(id_mapping, d, DestId(d))
                   /\ items' = update_item_status(items, d, "COMPLETED", DestId(d), "None")
                   /\ id_mappings' =
                        [update_id_mappings(id_mappings, items, d, DestId(d))
                            EXCEPT !.examples =
                                IF example_mapping /= EmptyMap
                                    THEN MergeMap(@, example_mapping) ELSE @]
                   /\ returned' = Put(returned, d,
                        [new_id |-> DestId(d), example_mapping |-> example_mapping])
              ELSE /\ items' = update_item_status(items, d, "FAILED", "None", "error")
                   /\ UNCHANGED <<id_mapping, id_mappings, returned>>
        /\ disk' = save(items', id_mappings')
        /\ futures' = futures \ {d}
        /\ handled' = [handled EXCEPT ![d] =
                          [runs |-> @.runs + 1, ok |-> @.ok \/ ok]]
    /\ UNCHANGED <<pcS, runNo, resume_info, selected, include_experiments>>
    /\ UNCHANGED <<expTodo, experiment_id_mapping, runTodo, run_id_mapping,
                   run_batch, fbTodo, sent>>
    /\ UNCHANGED restSession

\* What every step after the worker pool leaves alone
afterPool == <<disk, futures, runNo, handled, resume_info, selected,
               include_experiments, id_mapping, returned>>

\* migrate_datasets_parallel returns without an experiment phase: it was
\* not asked for, or no dataset was migrated.
FinishRun ==
    /\ pcS = "workers"
    /\ futures = {}
    /\ ~(include_experiments /\ id_mapping /= EmptyMap)
    /\ pcS' = "finished"
    /\ UNCHANGED <<items, id_mappings, expTodo, experiment_id_mapping, runTodo,
                   run_id_mapping, run_batch, fbTodo, sent>>
    /\ UNCHANGED afterPool
    /\ UNCHANGED restSession

\* _migrate_experiments_for_datasets is entered once the pool has been left:
\* the experiments of all selected datasets are listed.
StartExperiments ==
    /\ pcS = "workers"
    /\ futures = {}
    /\ include_experiments /\ id_mapping /= EmptyMap
    /\ expTodo' = AllExperiments(selected)
    /\ pcS' = IF AllExperiments(selected) = <<>> THEN "finished" ELSE "experiments"
    /\ UNCHANGED <<items, id_mappings, experiment_id_mapping, runTodo,
                   run_id_mapping, run_batch, fbTodo, sent>>
    /\ UNCHANGED afterPool
    /\ UNCHANGED restSession

\* One turn of `for experiment in all_experiments`: skipped when its dataset
\* is not in the dataset ID-map; otherwise the item is added, set
\* IN_PROGRESS, create_experiment is called with the destination dataset
\* and the item is set COMPLETED or FAILED. create_experiment posts the
\* experiment (which can fail) or finds it on the destination.
MigrateExperiment ==
    /\ pcS = "experiments"
    /\ expTodo /= <<>>
    /\ LET e == Head(expTodo)
           dest_dataset_id == Get(id_mapping, reference_dataset(e))
           started == update_item_status(add_item(items, e, NewItem("experiment")),
                                         e, "IN_PROGRESS", "None", "None")
           post == Write("experiment", <<[src |-> e, parent |-> dest_dataset_id]>>)
       IN IF dest_dataset_id = "None"
            THEN UNCHANGED <<items, id_mappings, experiment_id_mapping, sent>>
            ELSE \E how \in {"created", "existing", "failed"} :
                /\ sent' = IF how = "existing" THEN sent ELSE Append(sent, post)
                /\ IF how = "failed"
                      THEN /\ items' = update_item_status(started, e, "FAILED",
                                                          "None", "error")
                           /\ UNCHANGED <<id_mappings, experiment_id_mapping>>
                      ELSE /\ items' = update_item_status(started, e, "COMPLETED",
                                                          DestId(e), "None")
                           /\ id_mappings' =
                                update_id_mappings(id_mappings, started, e, DestId(e))
                           /\ experiment_id_mapping' =
                                Put(experiment_id_mapping, e, DestId(e))
    /\ expTodo' = Tail(expTodo)
    /\ UNCHANGED <<pcS, runTodo, run_id_mapping, run_batch, fbTodo>>
    /\ UNCHANGED afterPool
    /\ UNCHANGED restSession

\* After the experiment loop: migrate_runs_streaming is called when an
\* experiment was mapped, and queries the runs of each mapped experiment.
StartRuns ==
    /\ pcS = "experiments"
    /\ LoopEnded(expTodo)
    /\ IF experiment_id_mapping = EmptyMap
          THEN /\ pcS' = "finished"
               /\ runTodo' = <<>>
          ELSE /\ pcS' = "runs"
               /\ runTodo' = AllRuns(experiment_id_mapping)
    /\ UNCHANGED <<items, id_mappings, expTodo, experiment_id_mapping,
                   run_id_mapping, run_batch, fbTodo, sent>>
    /\ UNCHANGED afterPool
    /\ UNCHANGED restSession

\* One turn of `for run in runs`: a run whose session_id is not in the
\* experiment mapping is skipped; otherwise it gets a new ID, is appended
\* to the batch, and a full batch is posted to /runs/batch.
MigrateRun ==
    /\ pcS = "runs"
    /\ runTodo /= <<>>
    /\ LET run == Head(runTodo)
       IN IF run.session_id \notin DOMAIN experiment_id_mapping
            THEN UNCHANGED <<run_id_mapping, run_batch, sent>>
            ELSE LET filled == Append(run_batch,
                        MigratedRun(run, experiment_id_mapping, run_id_mapping))
                 IN /\ run_id_mapping' = Put(run_id_mapping, run.id, DestId(run.id))
                    /\ IF Len(filled) >= RunBatchSize
                          THEN /\ sent' = Append(sent, Write("runs", filled))
                               /\ run_batch' = <<>>
                          ELSE /\ run_batch' = filled
                               /\ UNCHANGED sent
    /\ runTodo' = Tail(runTodo)
    /\ UNCHANGED <<pcS, items, id_mappings, expTodo, experiment_id_mapping, fbTodo>>
    /\ UNCHANGED afterPool
    /\ UNCHANGED restSession

\* The end of migrate_runs_streaming (the remaining batch is posted) and
\* the test that guards the feedback phase; migrate_feedback_for_experiments
\* lists the feedback of each mapped experiment.
FinishRuns ==
    /\ pcS = "runs"
    /\ LoopEnded(runTodo)
    /\ sent' = IF run_batch /= <<>> THEN Append(sent, Write("runs", run_batch)) ELSE sent
    /\ run_batch' = <<>>
    /\ IF run_id_mapping = EmptyMap
          THEN /\ pcS' = "finished"
               /\ fbTodo' = <<>>
          ELSE /\ pcS' = "feedback"
               /\ fbTodo' = AllFeedback(experiment_id_mapping)
    /\ UNCHANGED <<items, id_mappings, expTodo, experiment_id_mapping,
                   runTodo, run_id_mapping>>
    /\ UNCHANGED afterPool
    /\ UNCHANGED restSession

\* One feedback record: skipped when it names a run that is not in the run
\* ID-map, otherwise posted to /feedback.
MigrateFeedback ==
    /\ pcS = "feedback"
    /\ fbTodo /= <<>>
    /\ LET fb == Head(fbTodo)
       IN IF fb.run_id /= "None" /\ Get(run_id_mapping, fb.run_id) = "None"
            THEN UNCHANGED sent
            ELSE sent' = Append(sent,
                    Write("feedback", <<MigratedFeedback(fb, run_id_mapping)>>))
    /\ fbTodo' = Tail(fbTodo)
    /\ UNCHANGED <<pcS, items, id_mappings, expTodo, experiment_id_mapping,
                   runTodo, run_id_mapping, run_batch>>
    /\ UNCHANGED afterPool
    /\ UNCHANGED restSession

\* migrate_feedback_for_experiments and migrate_datasets_parallel return
FinishFeedback ==
    /\ pcS = "feedback"
    /\ LoopEnded(fbTodo)
    /\ pcS' = "finished"
    /\ UNCHANGED <<items, id_mappings, expTodo, experiment_id_mapping, runTodo,
                   run_id_mapping, run_batch, fbTodo, sent>>
    /\ UNCHANGED afterPool
    /\ UNCHANGED restSession

\* The memory of a process that has stopped
ProcessGone ==
    /\ items' = NoItems
    /\ id_mappings' = NoMappings
    /\ futures' = {}
    /\ id_mapping' = EmptyMap
    /\ returned' = NoReturns
    /\ expTodo' = <<>>
    /\ experiment_id_mapping' = EmptyMap
    /\ runTodo' = <<>>
    /\ run_id_mapping' = EmptyMap
    /\ run_batch' = <<>>
    /\ fbTodo' = <<>>

\* The process is stopped (terminal signal) between two steps of a
\* migration: the session file stays as the last save left it.
Abort ==
    /\ pcS \in {"workers", "experiments", "runs", "feedback"}
    /\ pcS' = "aborted"
    /\ ProcessGone
    /\ UNCHANGED <<disk, runNo, handled, resume_info, selected,
                   include_experiments, sent>>
    /\ UNCHANGED restSession

\* The process is stopped inside StateManager.save, in a turn of the
\* as_completed loop, after open(state_file, 'w') and before json.dump has
\* written the session.
AbortInSave ==
    /\ pcS = "workers"
    /\ \E d \in futures, ok \in BOOLEAN :
        handled' = [handled EXCEPT ![d] = [runs |-> @.runs + 1, ok |-> @.ok \/ ok]]
    /\ disk' = Truncated
    /\ pcS' = "aborted"
    /\ ProcessGone
    /\ UNCHANGED <<runNo, resume_info, selected, include_experiments, sent>>
    /\ UNCHANGED restSession

\* The `resume` command on the session file: load_session, get_resume_info,
\* and, when the session can be resumed and has dataset items to process,
\* migrate_datasets_parallel up to the submission of the workers.
Resume ==
    /\ pcS \in {"finished", "aborted"}
    /\ disk.exists /\ disk.complete
    /\ runNo < MaxRuns
    /\ LET loaded == load_session(disk)
           info == get_resume_info(loaded)
           ids == ResumeDatasetIds(loaded)
       IN /\ resume_info' = info
          /\ id_mappings' = load_id_mappings(disk)
          /\ IF info.can_resume /\ ids /= {} THEN
                \E reg \in SUBSET ids :
                    /\ selected' = ids
                    /\ items' = RegisterAll(loaded, reg)
                    /\ IF reg = ids
                          THEN /\ futures' = ids
                               /\ pcS' = "workers"
                          ELSE /\ futures' = {}
                               /\ pcS' = "finished"
             ELSE /\ selected' = {}
                  /\ items' = loaded
                  /\ futures' = {}
                  /\ pcS' = "finished"
    /\ runNo' = runNo + 1
    /\ include_experiments' = FALSE
    /\ NewCall
    /\ UNCHANGED <<disk, handled>>
    /\ UNCHANGED restSession

NextSession ==
    \/ RunDatasets \/ Collect \/ FinishRun
    \/ StartExperiments \/ MigrateExperiment \/ StartRuns
    \/ MigrateRun \/ FinishRuns \/ MigrateFeedback \/ FinishFeedback
    \/ Abort \/ AbortInSave \/ Resume

(***************************************************************************)
(* The upsert of one resource: core/migrators/dataset.py (with the         *)
(* examples of the dataset), experiment.py, annotation_queue.py, rules.py  *)
(* and chart.py.  The destination is a listing of resources of one kind,   *)
(* in the order the destination returns them; the ID of a destination      *)
(* resource is its position in the listing, 0 stands for None, and the IDs *)
(* of the source's charts lie above 100.                                   *)
(***************************************************************************)

Kinds ==
    {"dataset", "experiment", "queue", "rule", "chart", "run", "feedback",
     "prompt"}

\* longest destination listing before the first migration
MaxDest == 2

\* most examples of the source dataset
MaxExamples == 3

\* migrations of the same source, one after the other
MaxCalls == 2

\* config.migration.batch_size as far as the examples are concerned
ExampleBatchSize == 2

\* The inputs of an example: the keys of the dict in the order the JSON
\* document lists them; <<>> is the empty dict {}.
Inputs == {<<>>, <<"a">>, <<"b", "a">>}

\* json.dumps(inputs, sort_keys=True): the keys in sorted order
SortedKeys(inputs) ==
    IF Len(inputs) = 2 /\ inputs[1] = "b" /\ inputs[2] = "a"
        THEN <<"a", "b">>
        ELSE inputs

\* the digest of the canonical serialisation (injective on it)
hash_inputs(inputs) == <<"sha256", SortedKeys(inputs)>>

\* bool(inputs) of Python: an empty dict is falsy
NonEmpty(inputs) == inputs /= <<>>

Resource(name, dataset_id, session_id, section_id, examples) ==
    [name |-> name, dataset_id |-> dataset_id, session_id |-> session_id,
     section_id |-> section_id, examples |-> examples]

\* what a destination can hold of each kind before the first migration
DestResources(k) ==
    CASE k = "dataset" ->
            {Resource(n, "None", "None", "None", x) :
                n \in {"n", "m"}, x \in {<<>>, << <<"a", "b">> >>}}
      [] k = "experiment" ->
            {Resource(n, d, "None", "None", <<>>) :
                n \in {"n", "m"}, d \in {"ds1", "ds2"}}
      [] k = "queue" ->
            {Resource(n, "None", "None", "None", <<>>) : n \in {"n", "m"}}
      [] k = "rule" ->
            {Resource(n, d, s, "None", <<>>) :
                n \in {"n", "m"}, d \in {"None", "ds1"}, s \in {"None", "p1"}}
      [] k = "chart" ->
            {Resource(n, "None", "None", c, <<>>) :
                n \in {"n", "m"}, c \in {"None", "S"}}
      [] k = "prompt" ->
            {Resource(n, "None", "None", "None", <<>>) : n \in {"n", "m"}}
      [] k \in {"run", "feedback"} -> {}

\* the source resource; has_series and section_title matter for charts only
Sources(k) ==
    CASE k = "dataset" ->
            {[name |-> "n", dataset_id |-> "None", session_id |-> "None",
              section_id |-> "None", section_title |-> "None",
              has_series |-> TRUE, examples |-> x] :
                x \in SeqsUpTo(Inputs, MaxExamples)}
      [] k = "experiment" ->
            {[name |-> "n", dataset_id |-> "ds1", session_id |-> "None",
              section_id |-> "None", section_title |-> "None",
              has_series |-> TRUE, examples |-> <<>>]}
      [] k = "queue" ->
            {[name |-> "n", dataset_id |-> "None", session_id |-> "None",
              section_id |-> "None", section_title |-> "None",
              has_series |-> TRUE, examples |-> <<>>]}
      [] k = "rule" ->
            {[name |-> "n", dataset_id |-> d, session_id |-> s,
              section_id |-> "None", section_title |-> "None",
              has_series |-> TRUE, examples |-> <<>>] :
                d \in {"None", "ds1"}, s \in {"None", "p1"}}
      [] k = "chart" ->
            {[name |-> "n", dataset_id |-> "None", session_id |-> "None",
              section_id |-> c, section_title |-> t,
              has_series |-> h, examples |-> <<>>] :
                c \in {"None", "srcS"}, t \in {"None", "S"}, h \in BOOLEAN}
      [] k \in {"run", "feedback", "prompt"} ->
            {[name |-> "n", dataset_id |-> "None", session_id |-> "None",
              section_id |-> "None", section_title |-> "None",
              has_series |-> TRUE, examples |-> <<>>]}

NoSource ==
    [name |-> "None", dataset_id |-> "None", session_id |-> "None",
     section_id |-> "None", section_title |-> "None", has_series |-> FALSE,
     examples |-> <<>>]

\* A write request sent to the destination: id is the ID in the path of a
\* PATCH (0 for a POST), n the number of records in the body.
Request(m, target, id, n) == [method |-> m, target |-> target, id |-> id, n |-> n]

\* What a migration returned: an ID, a "dry-run-..." placeholder, None, or
\* an exception.
Ref(tag, id) == [tag |-> tag, id |-> id]

First(S) == IF S = {} THEN 0 ELSE CHOOSE i \in S : \A j \in S : i <= j

Last(S) == IF S = {} THEN 0 ELSE CHOOSE i \in S : \A j \in S : j <= i

Named(listing, name) == {i \in 1 .. Len(listing) : listing[i].name = name}

\* GET /datasets?name=<name> answers with the datasets of that name
find_existing_dataset(listing, name) ==
    LET datasets == Named(listing, name)
    IN IF Cardinality(datasets) = 1 THEN First(datasets) ELSE 0

find_existing_experiment(listing, name, dataset_id) ==
    First({i \in Named(listing, name) : listing[i].dataset_id = dataset_id})

find_existing_queue(listing, name) == First(Named(listing, name))

find_existing_rule(listing, name, session_id, dataset_id) ==
    First({i \in Named(listing, name) :
            \/ dataset_id /= "None" /\ listing[i].dataset_id = dataset_id
            \/ session_id /= "None" /\ listing[i].session_id = session_id
            \/ /\ dataset_id = "None"
               /\ session_id = "None"
               /\ listing[i].dataset_id = "None"
               /\ listing[i].session_id = "None"})

find_existing_chart(listing, title, section_id) ==
    First({i \in Named(listing, title) :
            section_id = "None" \/ listing[i].section_id = section_id})

\* PromptMigrator.find_existing_prompt: a repo with that handle is listed
find_existing_prompt(listing, prompt_identifier) ==
    Named(listing, prompt_identifier) /= {}

\* ChartMigrator.list_charts posts the listing query to self.source: what
\* find_existing_chart searches is the source's listing, which holds the
\* chart being migrated under its source section.
list_charts(src) ==
    <<Resource(src.name, "None", "None", src.section_id, <<>>)>>

\* the ID of the i-th chart of the source's listing (no destination ID)
SourceChartId(i) == 100 + i

AlwaysCreate(existing_id, skip_existing) == "create"

\* `if existing_id: if skip_existing: return existing_id else: update`
Decide(existing_id, skip_existing) ==
    IF existing_id /= 0
        THEN IF skip_existing THEN "skip" ELSE "update"
        ELSE "create"

\* inputs hash -> position of the destination example kept under that hash
get_existing_examples(examples) ==
    LET kept == {j \in 1 .. Len(examples) : NonEmpty(examples[j])}
    IN [h \in {hash_inputs(examples[j]) : j \in kept} |->
            Last({j \in kept : hash_inputs(examples[j]) = h})]

\* _process_example_batch: one POST /examples/bulk with the whole batch
process_example_batch(st) ==
    [reqs |-> Append(st.reqs, Request("POST", "example", 0, Len(st.batch))),
     batch |-> <<>>,
     created |-> st.created \o st.batch]

NoExamples == [reqs |-> <<>>, batch |-> <<>>, created |-> <<>>]

RECURSIVE ExampleLoop(_, _, _)
\* the loop over stream_examples and the final batch
ExampleLoop(todo, existing_examples, st) ==
    IF todo = <<>>
        THEN IF st.batch /= <<>> THEN process_example_batch(st) ELSE st
        ELSE LET source_inputs == Head(todo)
                 inputs_hash == hash_inputs(source_inputs)
             IN IF inputs_hash \in DOMAIN existing_examples
                    THEN ExampleLoop(Tail(todo), existing_examples,
                            [st EXCEPT !.reqs = Append(@,
                                Request("PATCH", "example",
                                        existing_examples[inputs_hash], 1))])
                    ELSE LET st2 == [st EXCEPT !.batch = Append(@, source_inputs)]
                         IN ExampleLoop(Tail(todo), existing_examples,
                                IF Len(st2.batch) >= ExampleBatchSize
                                    THEN process_example_batch(st2)
                                    ELSE st2)

ExamplesAlwaysSent(source_examples, dest_examples, dry_run) ==
    ExampleLoop(source_examples, get_existing_examples(dest_examples), NoExamples)

\* the requests sent for the examples and the inputs of the examples created
migrate_examples_streaming(source_examples, dest_examples, dry_run) ==
    IF dry_run
        THEN NoExamples
        ELSE ExampleLoop(source_examples, get_existing_examples(dest_examples),
                         NoExamples)

RECURSIVE ExampleCount(_)
ExampleCount(listing) ==
    IF listing = <<>> THEN 0
    ELSE Len(Head(listing).examples) + ExampleCount(Tail(listing))

\* what the destination holds: resources, examples, resources named `name`
Counts(listing, name) ==
    [resources |-> Len(listing),
     examples |-> ExampleCount(listing),
     named |-> Cardinality(Named(listing, name)),
     first |-> First(Named(listing, name))]

NoLookup == [made |-> FALSE, id |-> 0]

Lookup(id) == [made |-> TRUE, id |-> id]

AsResource(src, section_id) ==
    Resource(src.name, src.dataset_id, src.session_id, section_id, <<>>)

InitUpsert ==
    /\ pcU = "idle"
    /\ resource_kind = "none"
    /\ config = [skip_existing |-> FALSE, dry_run |-> FALSE]
    /\ source = NoSource
    /\ dest = <<>>
    /\ sections = {}
    /\ requests = <<>>
    /\ existing = NoLookup
    /\ ret = Ref("none", 0)
    /\ calls = 0
    /\ before = Counts(<<>>, "None")

\* The inputs of a migration: the kind, the two switches of
\* config.migration, the source resource and the destination's content.
SetUp ==
    /\ pcU = "idle"
    /\ \E k \in Kinds, skip \in BOOLEAN, dry \in BOOLEAN :
        /\ resource_kind' = k
        /\ config' = [skip_existing |-> skip, dry_run |-> dry]
        /\ \E src \in Sources(k), listing \in SeqsUpTo(DestResources(k), MaxDest) :
            /\ source' = src
            /\ dest' = listing
            /\ before' = Counts(listing, src.name)
        /\ sections' \in IF k = "chart" THEN {{}, {"S"}} ELSE {{}}
    /\ pcU' = "ready"
    /\ UNCHANGED <<requests, existing, ret, calls>>
    /\ UNCHANGED restUpsert

CallStarts ==
    /\ pcU = "ready"
    /\ calls < MaxCalls
    /\ calls' = calls + 1
    /\ before' = Counts(dest, source.name)
    /\ UNCHANGED <<pcU, resource_kind, config, source>>

\* DatasetMigrator.migrate_dataset(dataset_id, include_examples=True)
migrate_dataset ==
    /\ resource_kind = "dataset"
    /\ CallStarts
    /\ \E accepted \in BOOLEAN :
        LET existing_id == find_existing_dataset(dest, source.name)
            decision == Decide(existing_id, config.skip_existing)
            posted == decision = "create" /\ ~config.dry_run
            \* the destination may answer 409 to a name it already holds
            conflict == posted /\ ~accepted
            head == CASE decision = "skip" -> <<>>
                      [] decision = "update" ->
                            IF config.dry_run THEN <<>>
                            ELSE <<Request("PATCH", "dataset", existing_id, 1)>>
                      [] decision = "create" ->
                            IF config.dry_run THEN <<>>
                            ELSE <<Request("POST", "dataset", 0, 1)>>
            dest1 == IF posted /\ ~conflict
                        THEN Append(dest, AsResource(source, "None"))
                        ELSE dest
            new_dataset_id == IF existing_id /= 0 THEN existing_id ELSE Len(dest1)
            \* `return existing_id, {}` and an exception end the call early
            with_examples == decision /= "skip" /\ ~conflict
            ex == IF with_examples
                    THEN migrate_examples_streaming(source.examples,
                            IF config.dry_run THEN <<>>
                            ELSE dest1[new_dataset_id].examples,
                            config.dry_run)
                    ELSE NoExamples
        IN /\ accepted \/ Named(dest, source.name) /= {}
           /\ existing' = Lookup(existing_id)
           /\ requests' = head \o ex.reqs
           /\ dest' = IF with_examples /\ ~config.dry_run
                        THEN [dest1 EXCEPT ![new_dataset_id].examples = @ \o ex.created]
                        ELSE dest1
           /\ ret' = CASE conflict -> Ref("raised", 0)
                       [] ~conflict /\ decision = "create" /\ config.dry_run ->
                            Ref("dry-run", 0)
                       [] OTHER -> Ref("id", new_dataset_id)
    /\ UNCHANGED sections
    /\ UNCHANGED restUpsert

\* ExperimentMigrator.create_experiment(experiment, new_dataset_id)
create_experiment ==
    /\ resource_kind = "experiment"
    /\ CallStarts
    /\ LET existing_id == find_existing_experiment(dest, source.name, source.dataset_id)
           decision == Decide(existing_id, config.skip_existing)
       IN /\ existing' = Lookup(existing_id)
          /\ CASE decision = "skip" ->
                    /\ requests' = <<>>
                    /\ dest' = dest
                    /\ ret' = Ref("id", existing_id)
               [] decision = "update" ->
                    /\ requests' = IF config.dry_run THEN <<>>
                                   ELSE <<Request("PATCH", "experiment", existing_id, 1)>>
                    /\ dest' = dest
                    /\ ret' = Ref("id", existing_id)
               [] decision = "create" ->
                    IF config.dry_run
                        THEN /\ requests' = <<>>
                             /\ dest' = dest
                             /\ ret' = Ref("dry-run", 0)
                        ELSE /\ requests' = <<Request("POST", "experiment", 0, 1)>>
                             /\ dest' = Append(dest, AsResource(source, "None"))
                             /\ ret' = Ref("id", Len(dest) + 1)
    /\ UNCHANGED sections
    /\ UNCHANGED restUpsert

\* AnnotationQueueMigrator.create_queue(queue)
create_queue ==
    /\ resource_kind = "queue"
    /\ CallStarts
    /\ LET existing_id == find_existing_queue(dest, source.name)
           decision == Decide(existing_id, config.skip_existing)
       IN /\ existing' = Lookup(existing_id)
          /\ CASE decision = "skip" ->
                    /\ requests' = <<>>
                    /\ dest' = dest
                    /\ ret' = Ref("id", existing_id)
               [] decision = "update" ->
                    /\ requests' = IF config.dry_run THEN <<>>
                                   ELSE <<Request("PATCH", "queue", existing_id, 1)>>
                    /\ dest' = dest
                    /\ ret' = Ref("id", existing_id)
               [] decision = "create" ->
                    IF config.dry_run
                        THEN /\ requests' = <<>>
                             /\ dest' = dest
                             /\ ret' = Ref("dry-run", 0)
                        ELSE /\ requests' = <<Request("POST", "queue", 0, 1)>>
                             /\ dest' = Append(dest, AsResource(source, "None"))
                             /\ ret' = Ref("id", Len(dest) + 1)
    /\ UNCHANGED sections
    /\ UNCHANGED restUpsert

\* RulesMigrator.create_rule(rule) with the default arguments; the source's
\* session_id and dataset_id stand for dest_session_id and dest_dataset_id,
\* the IDs after the project map and the dataset map were applied.
create_rule ==
    /\ resource_kind = "rule"
    /\ CallStarts
    /\ IF config.dry_run
          THEN /\ existing' = NoLookup
               /\ requests' = <<>>
               /\ dest' = dest
               /\ ret' = Ref("dry-run", 0)
       ELSE IF source.session_id = "None" /\ source.dataset_id = "None"
          THEN /\ existing' = NoLookup
               /\ requests' = <<>>
               /\ dest' = dest
               /\ ret' = Ref("none", 0)
       ELSE LET existing_id == find_existing_rule(dest, source.name,
                                    source.session_id, source.dataset_id)
                decision == Decide(existing_id, config.skip_existing)
            IN /\ existing' = Lookup(existing_id)
               /\ CASE decision = "skip" ->
                        /\ requests' = <<>>
                        /\ dest' = dest
                        /\ ret' = Ref("id", existing_id)
                    [] decision = "update" ->
                        /\ requests' = <<Request("PATCH", "rule", existing_id, 1)>>
                        /\ dest' = dest
                        /\ ret' = Ref("id", existing_id)
                    [] decision = "create" ->
                        /\ requests' = <<Request("POST", "rule", 0, 1)>>
                        /\ dest' = Append(dest, AsResource(source, "None"))
                        /\ ret' = Ref("id", Len(dest) + 1)
    /\ UNCHANGED sections
    /\ UNCHANGED restUpsert

\* ChartMigrator.create_chart(chart_data)
create_chart ==
    /\ resource_kind = "chart"
    /\ CallStarts
    /\ IF config.dry_run
          THEN /\ existing' = NoLookup
               /\ requests' = <<>>
               /\ dest' = dest
               /\ ret' = Ref("dry-run", 0)
               /\ sections' = sections
       ELSE \E section_created \in BOOLEAN, first_ok \in BOOLEAN :
            LET title == source.section_title
                \* _ensure_dest_section
                known == title \in sections
                asked == title /= "None" /\ ~known
                dest_section_id == IF title /= "None" /\ (known \/ section_created)
                                      THEN title ELSE "None"
                section_reqs == IF asked THEN <<Request("POST", "section", 0, 1)>>
                                ELSE <<>>
                section_id == IF dest_section_id /= "None" THEN dest_section_id
                              ELSE source.section_id
                found == find_existing_chart(list_charts(source), source.name,
                                             section_id)
                existing_id == IF found = 0 THEN 0 ELSE SourceChartId(found)
                decision == Decide(existing_id, config.skip_existing)
                create == Request("POST", "chart", 0, 1)
            IN /\ section_created \/ asked
               /\ sections' = IF asked /\ section_created
                                 THEN sections \cup {title} ELSE sections
               /\ IF ~source.has_series
                     THEN /\ first_ok
                          /\ existing' = NoLookup
                          /\ requests' = section_reqs
                          /\ dest' = dest
                          /\ ret' = Ref("none", 0)
                     ELSE /\ existing' = Lookup(existing_id)
                          /\ CASE decision = "skip" ->
                                    /\ first_ok
                                    /\ requests' = section_reqs
                                    /\ dest' = dest
                                    /\ ret' = Ref("id", existing_id)
                               [] decision = "update" ->
                                    \* `return existing_id if success else None`
                                    /\ requests' = Append(section_reqs,
                                            Request("PATCH", "chart", existing_id, 1))
                                    /\ dest' = dest
                                    /\ ret' = IF first_ok THEN Ref("id", existing_id)
                                               ELSE Ref("none", 0)
                               [] decision = "create" ->
                                    IF first_ok
                                        THEN /\ requests' = Append(section_reqs, create)
                                             /\ dest' = Append(dest,
                                                    AsResource(source, section_id))
                                             /\ ret' = Ref("id", Len(dest) + 1)
                                    ELSE IF section_id /= "None"
                                        THEN /\ requests' = section_reqs \o <<create, create>>
                                             /\ dest' = Append(dest,
                                                    AsResource(source, "None"))
                                             /\ ret' = Ref("id", Len(dest) + 1)
                                    ELSE /\ requests' = Append(section_reqs, create)
                                         /\ dest' = dest
                                         /\ ret' = Ref("none", 0)
    /\ UNCHANGED restUpsert

\* ExperimentMigrator.migrate_runs_streaming for an experiment with one run:
\* the run leaves in the final batch; the call returns the number created.
migrate_runs_streaming ==
    /\ resource_kind = "run"
    /\ CallStarts
    /\ \E accepted \in BOOLEAN :
        /\ accepted \/ ~config.dry_run
        /\ existing' = NoLookup
        /\ requests' = IF config.dry_run THEN <<>>
                       ELSE <<Request("POST", "run", 0, 1)>>
        /\ dest' = IF config.dry_run \/ ~accepted THEN dest
                   ELSE Append(dest, AsResource(source, "None"))
        /\ ret' = IF config.dry_run \/ ~accepted THEN Ref("count", 0)
                  ELSE Ref("count", 1)
    /\ UNCHANGED sections
    /\ UNCHANGED restUpsert

\* FeedbackMigrator.create_feedback(feedback): True or False
create_feedback ==
    /\ resource_kind = "feedback"
    /\ CallStarts
    /\ \E accepted \in BOOLEAN :
        /\ accepted \/ ~config.dry_run
        /\ existing' = NoLookup
        /\ requests' = IF config.dry_run THEN <<>>
                       ELSE <<Request("POST", "feedback", 0, 1)>>
        /\ dest' = IF config.dry_run \/ ~accepted THEN dest
                   ELSE Append(dest, AsResource(source, "None"))
        /\ ret' = IF accepted THEN Ref("true", 0) ELSE Ref("false", 0)
    /\ UNCHANGED sections
    /\ UNCHANGED restUpsert

\* PromptMigrator.migrate_prompt(prompt_identifier) with the default
\* include_all_commits=False: the latest manifest is pulled from the source
\* and pushed by _push_prompt_manifest, which first asks the destination to
\* create the repo and then posts the commit.  find_existing_prompt answers
\* yes or no: no ID is looked up.
migrate_prompt ==
    /\ resource_kind = "prompt"
    /\ CallStarts
    /\ \E pulled \in BOOLEAN, accepted \in BOOLEAN :
        LET exists == find_existing_prompt(dest, source.name)
            skipped == exists /\ config.skip_existing
        IN /\ existing' = NoLookup
           /\ IF config.dry_run \/ skipped
                 THEN /\ pulled /\ accepted
                      /\ requests' = <<>>
                      /\ dest' = dest
                      /\ ret' = Ref("identifier", 0)
              ELSE IF ~pulled
                 THEN /\ accepted
                      /\ requests' = <<>>
                      /\ dest' = dest
                      /\ ret' = Ref("none", 0)
              ELSE /\ requests' = <<Request("POST", "prompt", 0, 1),
                                     Request("POST", "commit", 0, 1)>>
                   /\ dest' = IF exists THEN dest
                              ELSE Append(dest, AsResource(source, "None"))
                   /\ ret' = IF accepted THEN Ref("identifier", 0)
                             ELSE Ref("none", 0)
    /\ UNCHANGED sections
    /\ UNCHANGED restUpsert

NextUpsert ==
    \/ SetUp
    \/ migrate_dataset \/ create_experiment \/ create_queue
    \/ create_rule \/ create_chart
    \/ migrate_runs_streaming \/ create_feedback \/ migrate_prompt

(***************************************************************************)
(* core/migrators/rules.py: RulesMigrator.create_rule with its arguments,  *)
(* the project map and the dataset map, the evaluators of the rule and the *)
(* payload of the request it sends.  The source rule refers to the project *)
(* "p1" and the dataset "ds1" of the source; destination IDs start with    *)
(* "dest_".  The ID of a destination rule is its position in the listing.  *)
(***************************************************************************)

\* longest listing of destination rules
MaxDestRules == 1

\* An LLM evaluator: structured.hub_ref ("None" for an inline prompt) and
\* structured.model ("None" when structured has no 'model' key).
Evaluator(hub_ref, model) == [hub_ref |-> hub_ref, model |-> model]

\* A prompt manifest: the last element of manifest.id and kwargs.last
Manifest(type_name, last) == [type_name |-> type_name, last |-> last]

\* _fetch_prompt_manifest returned None (404, no 'manifest', an exception)
NoManifest == Manifest("None", "None")

Manifests(model) ==
    {NoManifest, Manifest("RunnableSequence", model),
     Manifest("ChatPromptTemplate", model)}

_extract_model_from_manifest(manifest) ==
    IF manifest = NoManifest THEN "None"
    ELSE IF manifest.type_name \in {"RunnableSequence", "PromptPlayground"}
        THEN manifest.last
        ELSE "None"

\* the evaluators of a source rule: none, a prompt reference without and
\* with a model, an inline prompt
SourceEvaluators ==
    {<<>>, <<Evaluator("p:latest", "None")>>,
     <<Evaluator("p:latest", "own_model")>>, <<Evaluator("None", "own_model")>>}

SourceRule(session_id, dataset_id, evaluators, handle, group_by) ==
    [session_id |-> session_id, dataset_id |-> dataset_id,
     evaluators |-> evaluators, evaluator_prompt_handle |-> handle,
     group_by |-> group_by]

SourceRules ==
    {SourceRule(s, d, e, h, g) :
        s \in {"None", "p1"}, d \in {"None", "ds1"}, e \in SourceEvaluators,
        h \in {"None", "p"}, g \in BOOLEAN}

NoRule == SourceRule("None", "None", <<>>, "None", FALSE)

\* the rules the destination can hold, all named as the source rule
DestRules ==
    {Resource("n", d, s, "None", <<>>) :
        d \in {"None", "dest_ds1"}, s \in {"None", "dest_p1", "dest_p2"}}

NoArgs ==
    [target_project_id |-> "None", strip_project_reference |-> FALSE,
     ensure_project |-> FALSE]

NoEnv ==
    [project_on_dest |-> FALSE, dataset_on_dest |-> FALSE,
     source_manifest |-> NoManifest, dest_manifest |-> NoManifest,
     listing |-> <<>>, skip_existing |-> FALSE, dry_run |-> FALSE]

\* the payload of a rule request as far as scope, evaluators and group_by go
Payload(session_id, dataset_id, evaluators, group_by) ==
    [session_id |-> session_id, dataset_id |-> dataset_id,
     evaluators |-> evaluators, group_by |-> group_by]

NoPayload == Payload("None", "None", <<>>, FALSE)

\* a write request to the destination with its JSON body
RuleRequest(m, target, id, payload) ==
    [method |-> m, target |-> target, id |-> id, payload |-> payload]

\* build_project_mapping(create_missing): projects are matched by name, a
\* project missing on the destination is created when create_missing is set
build_project_mapping(env, create_missing) ==
    IF env.project_on_dest
        THEN [map |-> [x \in {"p1"} |-> "dest_p1"], requests |-> <<>>]
    ELSE IF create_missing
        THEN [map |-> [x \in {"p1"} |-> "dest_p1"],
              requests |-> <<RuleRequest("POST", "session", 0, NoPayload)>>]
    ELSE [map |-> EmptyMap, requests |-> <<>>]

build_dataset_mapping(env) ==
    IF env.dataset_on_dest THEN [x \in {"ds1"} |-> "dest_ds1"] ELSE EmptyMap

\* `if not evaluators and rule.get('evaluator_prompt_handle')`: the
\* evaluator is rebuilt from the separate fields, its model comes from the
\* source manifest, then from the destination manifest; without a model the
\* rule is skipped.  Evaluators the source rule already lists are copied.
rule_evaluators(r, env) ==
    IF r.evaluators = <<>> /\ r.evaluator_prompt_handle /= "None"
        THEN LET hub_ref == r.evaluator_prompt_handle \o ":latest"
                 source_model == _extract_model_from_manifest(env.source_manifest)
                 model_config ==
                    IF source_model /= "None" THEN source_model
                    ELSE _extract_model_from_manifest(env.dest_manifest)
             IN IF model_config = "None"
                    THEN [skip |-> TRUE, evaluators |-> <<>>]
                    ELSE [skip |-> FALSE,
                          evaluators |-> <<Evaluator(hub_ref, model_config)>>]
        ELSE [skip |-> FALSE, evaluators |-> r.evaluators]

ScopeOfSource(r, args, project_map, dataset_map) ==
    [skip |-> r.session_id = "None" /\ r.dataset_id = "None",
     session_id |-> r.session_id, dataset_id |-> r.dataset_id]

\* The scope of the payload: session_id and dataset_id, or skip.
rule_scope(r, args, project_map, dataset_map) ==
    LET dest_session_id ==
            IF r.session_id /= "None" THEN Get(project_map, r.session_id)
            ELSE "None"
        dest_dataset_id ==
            IF r.dataset_id /= "None" THEN Get(dataset_map, r.dataset_id)
            ELSE "None"
    IN IF args.strip_project_reference
          THEN IF dest_dataset_id /= "None"
                  THEN [skip |-> FALSE, session_id |-> "None",
                        dataset_id |-> dest_dataset_id]
                  ELSE [skip |-> TRUE, session_id |-> "None", dataset_id |-> "None"]
       ELSE IF args.target_project_id /= "None"
          THEN [skip |-> FALSE, session_id |-> args.target_project_id,
                dataset_id |-> dest_dataset_id]
       ELSE IF dest_session_id = "None" /\ dest_dataset_id = "None"
          THEN [skip |-> TRUE, session_id |-> "None", dataset_id |-> "None"]
       ELSE [skip |-> FALSE, session_id |-> dest_session_id,
             dataset_id |-> dest_dataset_id]


\* a payload sent with every key it was built with
KeepAllFields(payload) == payload

\* update_rule: the keys outside valid_patch_fields are dropped
patch_payload(payload) == [payload EXCEPT !.group_by = FALSE]

\* valid_create_fields holds every key of the payload built above
create_payload(payload) == payload

InitRule ==
    /\ pcRule = "idle"
    /\ rule = NoRule
    /\ rule_args = NoArgs
    /\ rule_env = NoEnv
    /\ rule_requests = <<>>
    /\ rule_ret = Ref("none", 0)

\* the source rule, the arguments of the call, config.migration and what
\* the destination holds
SetUpRule ==
    /\ pcRule = "idle"
    /\ \E r \in SourceRules :
        /\ rule' = r
        /\ \E src \in IF r.evaluators = <<>> /\ r.evaluator_prompt_handle /= "None"
                        THEN Manifests("src_model") ELSE {NoManifest},
              dst \in IF r.evaluators = <<>> /\ r.evaluator_prompt_handle /= "None"
                        THEN Manifests("dest_model") ELSE {NoManifest},
              p \in BOOLEAN, d \in BOOLEAN, skip \in BOOLEAN, dry \in BOOLEAN,
              listing \in SeqsUpTo(DestRules, MaxDestRules) :
            rule_env' = [project_on_dest |-> p, dataset_on_dest |-> d,
                         source_manifest |-> src, dest_manifest |-> dst,
                         listing |-> listing, skip_existing |-> skip,
                         dry_run |-> dry]
    /\ \E t \in {"None", "dest_p2"}, strip \in BOOLEAN, ensure \in BOOLEAN :
        rule_args' = [target_project_id |-> t, strip_project_reference |-> strip,
                      ensure_project |-> ensure]
    /\ pcRule' = "ready"
    /\ UNCHANGED <<rule_requests, rule_ret>>
    /\ UNCHANGED restRule

\* RulesMigrator.create_rule(rule, target_project_id,
\* strip_project_reference, ensure_project); `accepted` is the destination's
\* answer to the rule request (an error makes create_rule return None).
CreateRule ==
    /\ pcRule = "ready"
    /\ pcRule' = "done"
    /\ \E accepted \in BOOLEAN :
        LET ev == rule_evaluators(rule, rule_env)
            projects == build_project_mapping(rule_env, rule_args.ensure_project)
            scope == rule_scope(rule, rule_args, projects.map,
                                build_dataset_mapping(rule_env))
            payload == Payload(scope.session_id, scope.dataset_id,
                               ev.evaluators, rule.group_by)
            existing_id == find_existing_rule(rule_env.listing, "n",
                                payload.session_id, payload.dataset_id)
            decision == Decide(existing_id, rule_env.skip_existing)
        IN IF rule_env.dry_run
              THEN /\ accepted
                   /\ rule_requests' = <<>>
                   /\ rule_ret' = Ref("dry-run", 0)
           ELSE IF ev.skip
              THEN /\ accepted
                   /\ rule_requests' = <<>>
                   /\ rule_ret' = Ref("none", 0)
           ELSE IF scope.skip
              THEN /\ accepted
                   /\ rule_requests' = projects.requests
                   /\ rule_ret' = Ref("none", 0)
           ELSE CASE decision = "skip" ->
                    /\ accepted
                    /\ rule_requests' = projects.requests
                    /\ rule_ret' = Ref("id", existing_id)
                  [] decision = "update" ->
                    /\ rule_requests' = Append(projects.requests,
                            RuleRequest("PATCH", "rule", existing_id,
                                        patch_payload(payload)))
                    /\ rule_ret' = IF accepted THEN Ref("id", existing_id)
                                   ELSE Ref("none", 0)
                  [] decision = "create" ->
                    /\ rule_requests' = Append(projects.requests,
                            RuleRequest("POST", "rule", 0,
                                        create_payload(payload)))
                    /\ rule_ret' = IF accepted
                                     THEN Ref("id", Len(rule_env.listing) + 1)
                                     ELSE Ref("none", 0)
    /\ UNCHANGED <<rule, rule_args, rule_env>>
    /\ UNCHANGED restRule

NextRule == SetUpRule \/ CreateRule

(***************************************************************************)
(* core/migrators/experiment.py: migrate_runs_streaming for one mapped     *)
(* experiment, with the pages of POST /runs/query, the new run IDs, the    *)
(* trace IDs and the regenerated dotted_order.  Source run IDs are the     *)
(* numbers 1 .. TreeRuns, 0 stands for None; the runs 1, 2, ... form a     *)
(* chain (each the parent of the next) and the last run is a second root.  *)
(***************************************************************************)

\* runs of the experiment
TreeRuns == 4

RunIds == 1 .. TreeRuns

\* run.get("parent_run_id")
ParentOf(r) == IF r = 1 \/ r = TreeRuns THEN 0 ELSE r - 1

\* run.get("trace_id"): the ID of the root of the run's tree
TraceOf(r) == IF r = TreeRuns THEN TreeRuns ELSE 1

\* the start time in a dotted_order segment: a child starts after its parent
Timestamp(r) == IF r = TreeRuns THEN 0 ELSE r

RECURSIVE DottedOrderOf(_)
\* run.get("dotted_order"): one segment <<timestamp, uuid>> per ancestor,
\* the last one for the run itself
DottedOrderOf(r) ==
    IF ParentOf(r) = 0 THEN << <<Timestamp(r), r>> >>
    ELSE Append(DottedOrderOf(ParentOf(r)), <<Timestamp(r), r>>)

RECURSIVE DottedLess(_, _)
\* the order of two dotted_order strings: segments have a fixed width, so
\* the strings compare segment by segment, and a prefix comes first
DottedLess(a, b) ==
    IF b = <<>> THEN FALSE
    ELSE IF a = <<>> THEN TRUE
    ELSE IF Head(a) = Head(b) THEN DottedLess(Tail(a), Tail(b))
    ELSE \/ Head(a)[1] < Head(b)[1]
         \/ Head(a)[1] = Head(b)[1] /\ Head(a)[2] < Head(b)[2]

\* the sequences that list each element of S once
Orderings(S) ==
    {q \in [1 .. Cardinality(S) -> S] : \A i, j \in DOMAIN q : q[i] = q[j] => i = j}

Elements(q) == {q[i] : i \in DOMAIN q}

\* runs.sort(key=lambda r: r.get("dotted_order", ""))
SortByDottedOrder(runs) ==
    CHOOSE q \in Orderings(Elements(runs)) :
        \A i, j \in DOMAIN q :
            i < j => DottedLess(DottedOrderOf(q[i]), DottedOrderOf(q[j]))

\* str(uuid.uuid4()): an ID no source run and no earlier new run has
NewRunId(k) == 100 + k

MappedOr(mapping, id, default) ==
    IF id \in DOMAIN mapping THEN mapping[id] ELSE default

\* {**run_id_mapping, **trace_id_mapping}
Combined(f, g) ==
    [x \in DOMAIN f \cup DOMAIN g |-> IF x \in DOMAIN g THEN g[x] ELSE f[x]]

_regenerate_dotted_order(dotted_order, mapping, new_run_id) ==
    [i \in 1 .. Len(dotted_order) |->
        IF i = Len(dotted_order)
            THEN <<dotted_order[i][1], new_run_id>>
            ELSE <<dotted_order[i][1],
                   MappedOr(mapping, dotted_order[i][2], dotted_order[i][2])>>]

\* migrated_run: the fields of the payload that place the run in its trace
TraceFields(id, parent_run_id, trace_id, dotted_order) ==
    [id |-> id, parent_run_id |-> parent_run_id, trace_id |-> trace_id,
     dotted_order |-> dotted_order]

NoIds == [x \in {} |-> 0]

InitTrace ==
    /\ pcT = "idle"
    /\ runs_listing = <<>>
    /\ page_limit = 0
    /\ cursor = 0
    /\ run_page = <<>>
    /\ processed = <<>>
    /\ run_ids = NoIds
    /\ trace_id_mapping = NoIds
    /\ batch = <<>>
    /\ written = <<>>

\* The order in which the source lists the runs of the experiment and the
\* number of runs it puts on a page.
StartRunMigration ==
    /\ pcT = "idle"
    /\ runs_listing' \in Orderings(RunIds)
    /\ page_limit' \in 1 .. TreeRuns
    /\ pcT' = "paging"
    /\ UNCHANGED <<cursor, run_page, processed, run_ids, trace_id_mapping, batch, written>>
    /\ UNCHANGED restTrace

\* self.source.post("/runs/query", payload) and the sort of the page; an
\* exception ends the loop over the pages
FetchRunPage ==
    /\ pcT = "paging"
    /\ \E ok \in BOOLEAN :
        IF ok
            THEN LET last == Min(cursor + page_limit, Len(runs_listing))
                     runs == SubSeq(runs_listing, cursor + 1, last)
                 IN /\ run_page' = SortByDottedOrder(runs)
                    /\ cursor' = last
                    /\ pcT' = "page"
            ELSE /\ pcT' = "last"
                 /\ UNCHANGED <<run_page, cursor>>
    /\ UNCHANGED <<runs_listing, page_limit, processed, run_ids,
                   trace_id_mapping, batch, written>>
    /\ UNCHANGED restTrace

\* One pass of `for run in runs`, with the POST of a full batch.
ProcessRun ==
    /\ pcT = "page"
    /\ run_page /= <<>>
    /\ \E accepted \in BOOLEAN :
        LET run == Head(run_page)
            parent_run_id == ParentOf(run)
            mapped_parent_id == MappedOr(run_ids, parent_run_id, 0)
            new_run_id == NewRunId(Len(processed) + 1)
            source_trace_id == TraceOf(run)
            new_trace_id ==
                IF parent_run_id = 0 THEN new_run_id
                ELSE MappedOr(trace_id_mapping, source_trace_id, new_run_id)
            traces == IF parent_run_id = 0
                        THEN Combined(trace_id_mapping,
                                      [x \in {source_trace_id} |-> new_run_id])
                        ELSE trace_id_mapping
            ids == Combined(run_ids, [x \in {run} |-> new_run_id])
            new_dotted_order ==
                _regenerate_dotted_order(DottedOrderOf(run),
                                         Combined(ids, traces), new_run_id)
            migrated_run == TraceFields(new_run_id, mapped_parent_id,
                                        new_trace_id, new_dotted_order)
            full == Len(batch) + 1 >= RunBatchSize
        IN /\ accepted \/ full
           /\ processed' = Append(processed, run)
           /\ run_ids' = ids
           /\ trace_id_mapping' = traces
           /\ batch' = IF full THEN <<>> ELSE Append(batch, migrated_run)
           /\ written' = IF full /\ accepted
                            THEN written \o Append(batch, migrated_run)
                            ELSE written
    /\ run_page' = Tail(run_page)
    /\ UNCHANGED <<pcT, runs_listing, page_limit, cursor>>
    /\ UNCHANGED restTrace

\* `cursors.get("next")`: another page, or the end of the loop
NextCursor ==
    /\ pcT = "page"
    /\ run_page = <<>>
    /\ pcT' = IF cursor < Len(runs_listing) THEN "paging" ELSE "last"
    /\ UNCHANGED <<runs_listing, page_limit, cursor, run_page, processed, run_ids,
                   trace_id_mapping, batch, written>>
    /\ UNCHANGED restTrace

\* `if batch:` the remaining runs are posted, and the call returns
FinishRunMigration ==
    /\ pcT = "last"
    /\ \E accepted \in BOOLEAN :
        /\ accepted \/ batch /= <<>>
        /\ written' = IF accepted THEN written \o batch ELSE written
    /\ batch' = <<>>
    /\ pcT' = "done"
    /\ UNCHANGED <<runs_listing, page_limit, cursor, run_page, processed, run_ids,
                   trace_id_mapping>>
    /\ UNCHANGED restTrace

NextTrace ==
    \/ StartRunMigration \/ FetchRunPage \/ ProcessRun \/ NextCursor
    \/ FinishRunMigration

(***************************************************************************)
(* core/migrators/prompt.py: migrate_prompt(prompt_identifier,             *)
(* include_all_commits=True).  The commits of the source repo are the      *)
(* numbers 1 .. ChainLen, commit 1 is the root, each later commit has the  *)
(* one before it as parent and ChainLen is the tip; 0 stands for None.     *)
(***************************************************************************)

\* commits of the source prompt repo
ChainLen == 3

CommitHashes == 1 .. ChainLen

\* commit.parent_commit_hash
ParentCommit(c) == c - 1

\* the hash the destination gives the commit it creates from commit c
DestHash(c) == 100 + c

\* get_prompt_commits: the commits in the order
\* source_ls_client.list_prompt_commits yields them
get_prompt_commits(listing) == listing

\* _push_prompt_manifest(prompt_identifier, manifest, parent_commit): the
\* payload of POST /commits/{owner}/{repo}; without a parent_commit the
\* destination's latest commit is looked up and used
push_payload(c, parent_commit, latest) ==
    [commit |-> c,
     parent_commit |-> IF parent_commit = 0 THEN latest ELSE parent_commit]

InitPrompt ==
    /\ pcPr = "idle"
    /\ prompt_env = [dry_run |-> FALSE, skip_existing |-> FALSE, exists |-> FALSE]
    /\ commits = <<>>
    /\ commit_index = 0
    /\ pushes = <<>>
    /\ dest_latest = 0
    /\ commits_migrated = 0
    /\ prompt_ret = "none"

\* migrate_prompt up to the loop over the commits: the dry run, the
\* existence check and get_prompt_commits
StartPromptMigration ==
    /\ pcPr = "idle"
    /\ \E dry \in BOOLEAN, skip \in BOOLEAN, exists \in BOOLEAN,
          listing \in Orderings(CommitHashes) :
        /\ prompt_env' = [dry_run |-> dry, skip_existing |-> skip, exists |-> exists]
        /\ IF dry \/ (exists /\ skip)
              THEN /\ pcPr' = "done"
                   /\ prompt_ret' = "identifier"
                   /\ commits' = <<>>
                   /\ dest_latest' = dest_latest
              ELSE /\ pcPr' = "commits"
                   /\ prompt_ret' = prompt_ret
                   /\ commits' = get_prompt_commits(listing)
                   \* an existing repo has a latest commit of its own
                   /\ dest_latest' = IF exists THEN DestHash(0) ELSE 0
    /\ commit_index' = 0
    /\ UNCHANGED <<pushes, commits_migrated>>
    /\ UNCHANGED restPrompt

\* One pass of `for i, commit in enumerate(commits)`: the manifest is
\* pulled from the source and pushed; the destination creates the commit,
\* answers that nothing changed, or refuses.
PushCommit ==
    /\ pcPr = "commits"
    /\ commit_index < Len(commits)
    /\ \E pulled \in BOOLEAN, answer \in {"created", "already_up_to_date", "failed"} :
        LET i == commit_index
            commit_hash == commits[i + 1]
            parent_hash == IF i > 0 THEN ParentCommit(commit_hash) ELSE 0
        IN IF ~pulled
              THEN /\ answer = "created"
                   /\ UNCHANGED <<pushes, dest_latest, commits_migrated>>
              ELSE /\ pushes' = Append(pushes,
                            push_payload(commit_hash, parent_hash, dest_latest))
                   /\ dest_latest' = IF answer = "created"
                                        THEN DestHash(commit_hash) ELSE dest_latest
                   /\ commits_migrated' = IF answer = "failed"
                                             THEN commits_migrated
                                             ELSE commits_migrated + 1
    /\ commit_index' = commit_index + 1
    /\ UNCHANGED <<pcPr, prompt_env, commits, prompt_ret>>
    /\ UNCHANGED restPrompt

\* After the loop: with no commit migrated the latest manifest is pushed
\* instead; the call returns the identifier, or None after a failure.
FinishPromptMigration ==
    /\ pcPr = "commits"
    /\ commit_index = Len(commits)
    /\ \E pulled \in BOOLEAN, accepted \in BOOLEAN :
        IF commits_migrated > 0
            THEN /\ pulled /\ accepted
                 /\ prompt_ret' = "identifier"
                 /\ UNCHANGED <<pushes, dest_latest>>
        ELSE IF ~pulled
            THEN /\ accepted
                 /\ prompt_ret' = "none"
                 /\ UNCHANGED <<pushes, dest_latest>>
        ELSE /\ pushes' = Append(pushes, push_payload(ChainLen, 0, dest_latest))
             /\ dest_latest' = IF accepted THEN DestHash(ChainLen) ELSE dest_latest
             /\ prompt_ret' = IF accepted THEN "identifier" ELSE "none"
    /\ pcPr' = "done"
    /\ UNCHANGED <<prompt_env, commits, commit_index, commits_migrated>>
    /\ UNCHANGED restPrompt

NextPrompt == StartPromptMigration \/ PushCommit \/ FinishPromptMigration

(***************************************************************************)
(* utils/state.py: MigrationState.get_statistics and StateManager.save,    *)
(* applied to a session state whose items carry any MigrationStatus.       *)
(***************************************************************************)

\* items of the session state at hand
MaxStateItems == 2

\* MigrationItem.type of the items the orchestrator adds
ItemTypes == {"dataset", "experiment"}

\* the session states: items 1 .. n, each of a type and with a status
SessionStates ==
    UNION {[1 .. n -> {[NewItem(t) EXCEPT !.status = st] :
                            t \in ItemTypes, st \in StatusNames}] :
           n \in 0 .. MaxStateItems}

CountOfType(its, type, value) ==
    Cardinality({k \in DOMAIN its :
                    its[k].type = type /\ StatusValue(its[k].status) = value})

\* stats["by_type"]: an entry per type met, with total and the counts of
\* completed, failed and pending
by_type(its) ==
    [t \in {its[k].type : k \in DOMAIN its} |->
        [total |-> Cardinality({k \in DOMAIN its : its[k].type = t}),
         completed |-> CountOfType(its, t, "completed"),
         failed |-> CountOfType(its, t, "failed"),
         pending |-> CountOfType(its, t, "pending")]]

NoStatistics == [raised |-> FALSE, stats |-> get_statistics(NoItems),
                 by_type |-> by_type(NoItems)]

InitStats ==
    /\ pcStat = "idle"
    /\ state_items = NoItems
    /\ statistics = NoStatistics
    /\ state_file = NoFile

\* a session state is at hand (built by the orchestrator or loaded)
TakeState ==
    /\ pcStat = "idle"
    /\ \E its \in SessionStates : state_items' = its
    /\ pcStat' = "loaded"
    /\ UNCHANGED <<statistics, state_file>>
    /\ UNCHANGED restStats

\* state.get_statistics()
GetStatistics ==
    /\ pcStat = "loaded"
    /\ statistics' =
         IF get_statistics(state_items).raised
            THEN [NoStatistics EXCEPT !.raised = TRUE]
            ELSE [raised |-> FALSE, stats |-> get_statistics(state_items),
                  by_type |-> by_type(state_items)]
    /\ pcStat' = "computed"
    /\ UNCHANGED <<state_items, state_file>>
    /\ UNCHANGED restStats

\* state_manager.save()
SaveState ==
    /\ pcStat = "computed"
    /\ state_file' = save(state_items, NoMappings)
    /\ pcStat' = "saved"
    /\ UNCHANGED <<state_items, statistics>>
    /\ UNCHANGED restStats

NextStats == TakeState \/ GetStatistics \/ SaveState

(***************************************************************************)
(* core/migrators/dataset.py: the attachments of one batch of new examples *)
(* in migrate_examples_streaming.  The examples of the batch are the       *)
(* numbers 1 .. batch_len, each with one attachment; the temporary file    *)
(* tempfile.mkstemp() creates for the attachment of example e is e.        *)
(***************************************************************************)

\* examples of the batch
MaxAttExamples == 3

NoDownloads == [e \in 1 .. MaxAttExamples |-> {}]

InitAttach ==
    /\ pcAtt = "idle"
    /\ batch_len = 0
    /\ att_index = 0
    /\ temp_files = {}
    /\ downloaded = NoDownloads
    /\ created_ids = {}

\* migrate_examples_streaming meets the new examples of a batch
StartExamples ==
    /\ pcAtt = "idle"
    /\ \E n \in 1 .. MaxAttExamples : batch_len' = n
    /\ pcAtt' = "downloading"
    /\ UNCHANGED <<att_index, temp_files, downloaded, created_ids>>
    /\ UNCHANGED restAttach

\* download_attachments for the next example: the attachment has no
\* presigned URL or the GET is refused (no file is created), the stream
\* breaks while it is copied into the file mkstemp created, or the file is
\* written and returned.  Every exception is logged and the loop goes on.
DownloadAttachments ==
    /\ pcAtt = "downloading"
    /\ att_index < batch_len
    /\ LET e == att_index + 1
       IN \E how \in {"no_file", "interrupted", "downloaded"} :
            /\ temp_files' = IF how = "no_file" THEN temp_files
                             ELSE temp_files \cup {e}
            /\ downloaded' = IF how = "downloaded"
                                THEN [downloaded EXCEPT ![e] = {e}]
                                ELSE downloaded
    /\ att_index' = att_index + 1
    /\ UNCHANGED <<pcAtt, batch_len, created_ids>>
    /\ UNCHANGED restAttach

\* _process_example_batch: without a downloaded attachment the batch goes
\* to /examples/bulk; otherwise create_examples_with_attachments is called,
\* which imports the SDK and builds its client before the loop, and an
\* exception of it is logged ("SDK upload failed").
ProcessExampleBatch ==
    /\ pcAtt = "downloading"
    /\ att_index = batch_len
    /\ \E accepted \in BOOLEAN, client_built \in BOOLEAN :
        LET has_attachments == \E e \in 1 .. batch_len : downloaded[e] /= {}
        IN IF ~has_attachments
              THEN /\ client_built
                   /\ pcAtt' = "done"
                   /\ created_ids' = IF accepted THEN 1 .. batch_len ELSE {}
           ELSE IF ~client_built
              THEN /\ accepted
                   /\ pcAtt' = "done"
                   /\ created_ids' = {}
           ELSE /\ accepted
                /\ pcAtt' = "uploading"
                /\ created_ids' = {}
    /\ att_index' = 0
    /\ UNCHANGED <<batch_len, temp_files, downloaded>>
    /\ UNCHANGED restAttach

\* One turn of the loop of create_examples_with_attachments: the files of
\* the example are read, the example is created through the SDK or the
\* fallback, or the creation fails; the `finally` removes the files named
\* in temp_files_to_cleanup.
CreateExampleWithAttachments ==
    /\ pcAtt = "uploading"
    /\ att_index < batch_len
    /\ LET e == att_index + 1
           temp_files_to_cleanup == downloaded[e]
       IN /\ \E created \in BOOLEAN :
                created_ids' = IF created THEN created_ids \cup {e} ELSE created_ids
          /\ temp_files' = temp_files \ temp_files_to_cleanup
    /\ att_index' = att_index + 1
    /\ pcAtt' = IF att_index + 1 = batch_len THEN "done" ELSE "uploading"
    /\ UNCHANGED <<batch_len, downloaded>>
    /\ UNCHANGED restAttach

NextAttach ==
    \/ StartExamples \/ DownloadAttachments \/ ProcessExampleBatch
    \/ CreateExampleWithAttachments

(***************************************************************************)
(* The specifications                                                      *)
(***************************************************************************)

Init ==
    /\ InitHttp /\ InitBatch /\ InitPage /\ InitSession /\ InitUpsert
    /\ InitRule /\ InitTrace /\ InitPrompt /\ InitStats
    /\ InitAttach

SpecHttp == Init /\ [][NextHttp]_vars

SpecBatch == Init /\ [][NextBatch]_vars

SpecPage == Init /\ [][NextPage]_vars

SpecSession == Init /\ [][NextSession]_vars

SpecUpsert == Init /\ [][NextUpsert]_vars

SpecRule == Init /\ [][NextRule]_vars

SpecTrace == Init /\ [][NextTrace]_vars

SpecPrompt == Init /\ [][NextPrompt]_vars

SpecStats == Init /\ [][NextStats]_vars

SpecAttach == Init /\ [][NextAttach]_vars

Next == NextHttp \/ NextBatch \/ NextPage \/ NextSession \/ NextUpsert

Spec == Init /\ [][Next]_vars


(***************************************************************************)
(* Properties of the HTTP client                                           *)
(***************************************************************************)

Waits == [i \in 1 .. Len(log) |-> log[i].wait]

Is5xx(resp) == resp.kind = "http" /\ resp.status >= 500

IsGood(resp) == resp.kind = "http" /\ resp.status = 200 /\ resp.json

\* 401/403, 409, or a 2xx response whose body is not JSON
IsFatal(resp) ==
    /\ resp.kind = "http"
    /\ \/ resp.status \in {401, 403, 409}
       \/ resp.status = 200 /\ ~resp.json

\* C3: an attempt that meets an Authentication (401/403), Conflict (409) or
\* Protocol (invalid JSON on 2xx) error is the last attempt of its call: no
\* wait follows it, the call has ended, and it raised exactly that error.
C3_FatalErrorsNotRetried ==
    \A i \in 1 .. Len(log) :
        IsFatal(log[i].resp) =>
            /\ i = Len(log)
            /\ log[i].wait = None
            /\ pcR = "raised"
            /\ outcome = handle_response(log[i].resp)

\* C3 witness: a GET whose second attempt (after a retried 5xx) met invalid
\* JSON on a 2xx response and raised.
C3_Witness ==
    /\ method = "GET"
    /\ pcR = "raised"
    /\ Len(log) = 2
    /\ Is5xx(log[1].resp)
    /\ log[2].resp.status = 200 /\ ~log[2].resp.json

\* C4 (as claimed): a 429 is always retried, so no call ends in an error
\* while the last response it received is a 429.
C4_RateLimitAlwaysRetried ==
    pcR = "raised" =>
        ~(Len(log) > 0 /\ log[Len(log)].resp.kind = "http"
                       /\ log[Len(log)].resp.status = 429)

\* C5: GET and POST against 5xx answers: never more than 3 attempts, no
\* giving up before the third, waits of 1 s then 2 s, and after the third
\* 5xx the server error is raised; a success on attempt 2 or 3 is returned.
C5_ServerErrorRetries ==
    (method \in {"GET", "POST"} /\ Len(log) > 0) =>
        LET n == Len(log)
            all5xx == \A i \in 1 .. n : Is5xx(log[i].resp)
            lead5xx == \A i \in 1 .. n - 1 : Is5xx(log[i].resp)
        IN /\ all5xx =>
                /\ n <= 3
                /\ n < 3 => pcR = "loop" /\ Waits = SubSeq(<<Some(1), Some(2)>>, 1, n)
                /\ n = 3 => Waits = <<Some(1), Some(2), None>>
                /\ pcR /= "returned"
                /\ pcR = "raised" =>
                        /\ n = 3
                        /\ outcome = handle_response(log[3].resp)
                        /\ outcome.cls = "APIError"
           /\ (lead5xx /\ IsGood(log[n].resp)) =>
                /\ n <= 3
                /\ pcR = "returned"
                /\ outcome = Ok
                /\ Waits = SubSeq(<<Some(1), Some(2)>>, 1, n - 1) \o <<None>>

\* C5 witness: a POST answered 5xx three times has raised the server error.
C5_Witness ==
    /\ method = "POST"
    /\ pcR = "raised"
    /\ Len(log) = 3
    /\ \A i \in 1 .. 3 : Is5xx(log[i].resp)

C7_RetryAfterWait ==
    \A i \in 1 .. Len(log) :
        LET h == log[i].resp.retry_after
        IN (log[i].resp.kind = "http" /\ log[i].resp.status = 429
                /\ h.present /\ h.numeric /\ h.value >= 0) =>
            log[i].wait = Some(Min(h.value, 60))

(***************************************************************************)
(* Properties of the batch POST                                            *)
(***************************************************************************)

\* C1 (as claimed): whatever the server does, post_batch_detailed returns
\* (it does not raise), and the BatchResult returned holds len(items)
\* entries, each a success with a response object or a failure with a
\* non-empty error string.
C1_OneResultPerItem ==
    /\ pcB /= "raised"
    /\ pcB = "done" =>
        /\ Len(result) = nItems
        /\ \A i \in 1 .. Len(result) :
            IF result[i].success
                THEN result[i].data /= "None"
                ELSE result[i].error \notin {"None", ""}

\* C2: when the server rejects exactly the requests holding an item of the
\* bad set (with 409 or another API error) and accepts the others, the
\* call returns one result per item in input order, and item i is a failure
\* iff it is in the bad set; get_responses has None exactly at the bad items.
C2_FailureIsolation ==
    server.mode = "reject_bad" =>
        /\ pcB /= "raised"
        /\ pcB = "done" =>
            /\ Len(result) = nItems
            /\ Len(get_responses(result)) = nItems
            /\ \A i \in 0 .. nItems - 1 :
                /\ result[i + 1].item_index = i
                /\ result[i + 1].success <=> i \notin server.bad
                /\ get_responses(result)[i + 1] = "None" <=> i \in server.bad

\* C2 witness: a finished batch of MaxItems items, sent as one request, of
\* which some but not all are bad, so that splitting happened.
C2_Witness ==
    /\ pcB = "done"
    /\ server.mode = "reject_bad"
    /\ nItems = MaxItems
    /\ batch_size = MaxItems
    /\ server.bad /= {}
    /\ server.bad /= 0 .. nItems - 1
    /\ Len(posts) > 2

(***************************************************************************)
(* Properties of the pagination driver                                     *)
(***************************************************************************)

\* C8: the driver never makes more than max_iterations (10000) fetches, and
\* it has stopped after any fetch that failed, gave an empty page, gave a
\* page shorter than page_size, or gave a page without a new item (every
\* item null or carrying an ID seen before).
C8_PaginationStops ==
    /\ iterations <= max_iterations
    /\ (lastPage.failed \/ lastPage.empty \/ lastPage.short \/ lastPage.nothing_new)
            => pcP = "done"

\* C8 witness: after at least one full page of new items, a full page made
\* only of IDs seen before has stopped the driver.
C8_Witness ==
    /\ pcP = "done"
    /\ iterations > 1
    /\ lastPage.nothing_new
    /\ ~lastPage.empty
    /\ ~lastPage.short
    /\ seen_ids /= {}

(***************************************************************************)
(* Properties of the session store and resume                              *)
(***************************************************************************)

ResumableItems(its) == {k \in DOMAIN its : its[k].status \in {"PENDING", "FAILED"}}

C10_AttemptCeiling ==
    \A d \in Datasets : ~handled[d].ok => handled[d].runs <= max_attempts

\* C11 (as claimed): after an abort at any point of a dataset migration the
\* session file is readable and records every selected dataset that it does
\* not show as Completed with status Pending, InProgress or Failed, and the
\* resume run started from that file selects the dataset.
C11_AbortKeepsUnfinishedResumable ==
    pcS = "aborted" =>
        /\ disk.exists
        /\ disk.complete
        /\ \A d \in selected :
            (d \notin DOMAIN disk.items \/ disk.items[d].status /= "completed") =>
                /\ d \in DOMAIN disk.items
                /\ disk.items[d].status \in {"pending", "in_progress", "failed"}
                /\ d \in ResumeDatasetIds(load_session(disk))

\* C12 (as claimed): whenever the session file exists it holds a complete
\* serialisation of a session; a truncated file is never observable, also
\* after an abort in the middle of save.
C12_SessionFileAlwaysComplete == disk.exists => disk.complete

\* C13 (as claimed): when a call of migrate_datasets_parallel has ended,
\* whatever failed for one dataset (the fetch of its source record
\* included), every selected dataset was handed to a worker and its item is
\* Completed, or Failed with an error message.
C13_OneFailureDoesNotStopTheOthers ==
    pcS = "finished" =>
        \A d \in selected :
            /\ d \in DOMAIN items
            /\ items[d].status \in {"COMPLETED", "FAILED"}
            /\ items[d].status = "FAILED" => items[d].error /= "None"

\* The kinds of record written so far, in the order of the requests
SentKinds == [i \in 1 .. Len(sent) |-> sent[i].kind]

PhaseRank(kind) ==
    CASE kind = "experiment" -> 1
      [] kind = "runs" -> 2
      [] kind = "feedback" -> 3

Written(kind) == \E i \in 1 .. Len(sent) : sent[i].kind = kind

\* C14: in a dataset migration with experiments no experiment is written
\* while a dataset worker is still to be collected, no run batch is written
\* while an experiment is still to be processed, and no feedback is written
\* while a run is still to be processed or waits in the batch; the requests
\* are ordered experiments, then run batches, then feedback.
C14_PhasesSerial ==
    /\ Written("experiment") => futures = {}
    /\ Written("runs") => futures = {} /\ expTodo = <<>>
    /\ Written("feedback") =>
            futures = {} /\ expTodo = <<>> /\ runTodo = <<>> /\ run_batch = <<>>
    /\ \A i, j \in 1 .. Len(sent) :
            i < j => PhaseRank(sent[i].kind) <= PhaseRank(sent[j].kind)

\* C14 witness: a migration that wrote two experiments, then two run
\* batches, then feedback, and has ended.
C14_Witness ==
    /\ pcS = "finished"
    /\ include_experiments
    /\ Cardinality({i \in 1 .. Len(sent) : sent[i].kind = "experiment"}) = 2
    /\ Cardinality({i \in 1 .. Len(sent) : sent[i].kind = "runs"}) = 2
    /\ Written("feedback")

\* C15: at every moment of the collection of the workers, and after it, the
\* local dataset ID-map and the dataset ID-map of the session hold the new
\* ID of every dataset whose worker returned, and the examples ID-map holds
\* every example mapping these workers returned.
C15_IdMapsMerged ==
    \A d \in DOMAIN returned :
        /\ Get(id_mapping, d) = returned[d].new_id
        /\ Get(id_mappings.dataset, d) = returned[d].new_id
        /\ \A x \in DOMAIN returned[d].example_mapping :
            Get(id_mappings.examples, x) = returned[d].example_mapping[x]

\* C15 witness: all workers of a run over three datasets are collected; two
\* returned example mappings and one failed.
C15_Witness ==
    /\ pcS = "workers"
    /\ futures = {}
    /\ Cardinality(selected) = 3
    /\ Cardinality({d \in DOMAIN returned :
                        returned[d].example_mapping /= EmptyMap}) = 2
    /\ \E d \in selected : items[d].status = "FAILED"

Range(f) == {f[x] : x \in DOMAIN f}

\* The ID-map a record's parent reference is taken from
ParentMap(kind) ==
    CASE kind = "experiment" -> id_mapping
      [] kind = "runs" -> experiment_id_mapping
      [] kind = "feedback" -> run_id_mapping

\* C16 (as claimed): every experiment, run and feedback record sent to the
\* destination carries a parent reference (reference_dataset_id,
\* session_id, run_id) that is a destination ID of the corresponding ID-map.
C16_ParentsMapped ==
    pcS /= "aborted" =>
        \A i \in 1 .. Len(sent) :
            \A j \in 1 .. Len(sent[i].records) :
                sent[i].records[j].parent \in Range(ParentMap(sent[i].kind))

(***************************************************************************)
(* Properties of the upsert                                                *)
(***************************************************************************)

Sent(m, target) ==
    {i \in 1 .. Len(requests) :
        requests[i].method = m /\ requests[i].target = target}

\* POST /datasets, POST /examples and POST /examples/bulk
CreateRequests == Sent("POST", "dataset") \cup Sent("POST", "example")

Unchanged ==
    /\ Len(dest) = before.resources
    /\ ExampleCount(dest) = before.examples

\* C17: with skip_existing on, a second migration of the same source
\* dataset, whatever the destination held at first, sends no POST to
\* /datasets, /examples or /examples/bulk and leaves the destination's
\* numbers of datasets and examples as they were.
C17_SecondRunCreatesNothing ==
    (resource_kind = "dataset" /\ config.skip_existing /\ calls >= 2) =>
        /\ CreateRequests = {}
        /\ Unchanged

\* C18: with skip_existing off, a second migration of an unchanged source
\* dataset that the lookup found on the destination sends a PATCH for the
\* dataset and for each of its examples, no POST, and the destination's
\* numbers of datasets and examples do not grow.
C18_SecondRunPatchesOnly ==
    (/\ resource_kind = "dataset"
     /\ ~config.skip_existing
     /\ ~config.dry_run
     /\ calls >= 2
     /\ existing.id /= 0) =>
        /\ CreateRequests = {}
        /\ Cardinality(Sent("PATCH", "dataset")) = 1
        /\ Cardinality(Sent("PATCH", "example")) = Len(source.examples)
        /\ Unchanged

\* C19: for each kind, in a migration that writes (dry_run off) and
\* reached the lookup: found and skip_existing, the existing ID is returned
\* and neither POST nor PATCH is sent for the resource; found and not
\* skip_existing, one PATCH to the existing ID and no POST; not found, a
\* create POST and no PATCH.
C19_UpsertDecision ==
    (calls >= 1 /\ existing.made /\ ~config.dry_run) =>
        LET creates == Sent("POST", resource_kind)
            updates == Sent("PATCH", resource_kind)
        IN /\ (existing.id /= 0 /\ config.skip_existing) =>
                /\ ret = Ref("id", existing.id)
                /\ creates = {}
                /\ updates = {}
           /\ (existing.id /= 0 /\ ~config.skip_existing) =>
                /\ Cardinality(updates) = 1
                /\ \A i \in updates : requests[i].id = existing.id
                /\ creates = {}
           /\ existing.id = 0 =>
                /\ creates /= {}
                /\ updates = {}

\* the second migration of a rule updates the rule the first one created
C19_Witness ==
    /\ resource_kind = "rule"
    /\ calls = 2
    /\ ~config.skip_existing
    /\ ~config.dry_run
    /\ existing = Lookup(Len(dest))
    /\ before.resources = Len(dest)
    /\ requests = <<Request("PATCH", "rule", Len(dest), 1)>>
    /\ ret = Ref("id", Len(dest))

\* C20: when the destination holds two or more datasets of the source
\* dataset's name, the lookup yields the first of them, migrate_dataset
\* skips or updates that one and creates no further dataset of the name.
C20_DuplicateNamePicksFirst ==
    (/\ resource_kind = "dataset"
     /\ calls >= 1
     /\ ~config.dry_run
     /\ before.named >= 2) =>
        /\ existing = Lookup(before.first)
        /\ Sent("POST", "dataset") = {}
        /\ Cardinality(Named(dest, source.name)) = before.named
        /\ config.skip_existing => requests = <<>>
        /\ ~config.skip_existing =>
                \E i \in Sent("PATCH", "dataset") : requests[i].id = before.first

(***************************************************************************)
(* Properties of the batch POST: the scenario of four items                *)
(***************************************************************************)

\* one request of 4 items, the 3rd (index 2) rejected whenever it is present
ThirdOfFourRejected ==
    /\ pcB = "done"
    /\ nItems = 4
    /\ batch_size >= 4
    /\ server.mode = "reject_bad"
    /\ server.bad = {2}

SingleItemPosts == {i \in 1 .. Len(posts) : posts[i] = 1}

ResultOkOkErrorOk ==
    /\ Len(result) = 4
    /\ \A i \in 1 .. 4 : result[i].item_index = i - 1
    /\ [i \in 1 .. 4 |-> result[i].success] = <<TRUE, TRUE, FALSE, TRUE>>
    /\ result[3].error /= "None"

\* C29 (as stated): the result is [ok, ok, error, ok] and exactly four
\* single-item POSTs were issued.
C29_FourSingleItemPosts ==
    ThirdOfFourRejected =>
        /\ ResultOkOkErrorOk
        /\ Cardinality(SingleItemPosts) = 4

\* C29 (amended): the result is [ok, ok, error, ok]; the requests are the
\* whole batch, its two halves and the two items of the failing half, that
\* is five POSTs of which exactly two hold a single item.
C29_TwoSingleItemPosts ==
    ThirdOfFourRejected =>
        /\ ResultOkOkErrorOk
        /\ posts = <<4, 2, 2, 1, 1>>
        /\ Cardinality(SingleItemPosts) = 2

C29_Witness ==
    /\ ThirdOfFourRejected
    /\ Len(posts) = 5
    /\ ~result[3].success

(***************************************************************************)
(* Properties of the HTTP client: the backoff budget                       *)
(***************************************************************************)

RECURSIVE TotalWait(_)
\* the seconds slept by the attempts of `attempts`
TotalWait(attempts) ==
    IF attempts = <<>> THEN 0
    ELSE (IF Head(attempts).wait = None THEN 0 ELSE Val(Head(attempts).wait))
         + TotalWait(Tail(attempts))

\* C30: within one GET, POST or PATCH call every single wait is at most 60
\* seconds and the waits of the call add up to at most 60 seconds.
C30_BackoffBudget ==
    /\ \A i \in 1 .. Len(log) : log[i].wait /= None => Val(log[i].wait) <= 60
    /\ TotalWait(log) <= 60

(***************************************************************************)
(* Properties of the chart upsert                                          *)
(***************************************************************************)

\* the destination's charts when the latest migration began
ChartsBefore == SubSeq(dest, 1, before.resources)

\* the destination charts that carry the source chart's title, and its
\* section when the lookup was given one
SameTitleAndSection(section_id) ==
    {i \in Named(ChartsBefore, source.name) :
        section_id = "None" \/ ChartsBefore[i].section_id = section_id}

\* C26: a chart (with series, dry_run off) is treated as existing only if
\* the destination held a chart of its title when the migration began; a
\* chart absent from the destination is created with POST /charts/create,
\* it is neither skipped nor PATCHed.
C26_ChartMatchedOnDestination ==
    (/\ resource_kind = "chart"
     /\ calls >= 1
     /\ ~config.dry_run
     /\ source.has_series) =>
        /\ existing.id /= 0 => SameTitleAndSection("None") /= {}
        /\ SameTitleAndSection("None") = {} =>
                /\ Sent("POST", "chart") /= {}
                /\ Sent("PATCH", "chart") = {}

(***************************************************************************)
(* C24: every rule payload create_rule sends, by POST or by PATCH, holds a *)
(* session_id or a dataset_id, and what it holds is a destination ID: the  *)
(* project map's or the dataset map's value for the source rule's ID, or   *)
(* the explicit target project.  When no such ID can be supplied the call  *)
(* sends no rule request and returns None.  (Stated for dry_run off: a     *)
(* dry run returns a "dry-run-..." placeholder before any of this.)        *)
(***************************************************************************)
RuleRequests == {i \in 1 .. Len(rule_requests) : rule_requests[i].target = "rule"}

\* the destination IDs the call can put into the payload
SuppliedSessionIds ==
    IF rule_args.strip_project_reference THEN {}
    ELSE IF rule_args.target_project_id /= "None"
        THEN {rule_args.target_project_id}
    ELSE {Get(build_project_mapping(rule_env, rule_args.ensure_project).map,
              rule.session_id)} \ {"None"}

SuppliedDatasetIds ==
    {Get(build_dataset_mapping(rule_env), rule.dataset_id)} \ {"None"}

C24_RulePayloadHasDestinationScope ==
    (pcRule = "done" /\ ~rule_env.dry_run) =>
        /\ \A i \in RuleRequests :
            LET payload == rule_requests[i].payload
            IN /\ payload.session_id /= "None" \/ payload.dataset_id /= "None"
               /\ payload.session_id \in SuppliedSessionIds \cup {"None"}
               /\ payload.dataset_id \in SuppliedDatasetIds \cup {"None"}
        /\ (SuppliedSessionIds = {} /\ SuppliedDatasetIds = {}) =>
                RuleRequests = {} /\ rule_ret = Ref("none", 0)

C24_Witness ==
    /\ pcRule = "done"
    /\ rule.session_id = "p1"
    /\ rule.dataset_id = "ds1"
    /\ ~rule_env.dataset_on_dest
    /\ \E i \in RuleRequests :
        /\ rule_requests[i].method = "PATCH"
        /\ rule_requests[i].payload.session_id = "dest_p1"
        /\ rule_requests[i].payload.dataset_id = "None"

(***************************************************************************)
(* C25: every rule sent to the destination whose evaluator is a structured *)
(* prompt reference (hub_ref) carries a model inside that evaluator, and   *)
(* when neither the source nor the destination manifest yields a model the *)
(* rule is skipped and nothing is sent.                                    *)
(***************************************************************************)
ModelObtainable ==
    \/ _extract_model_from_manifest(rule_env.source_manifest) /= "None"
    \/ _extract_model_from_manifest(rule_env.dest_manifest) /= "None"

C25_HubRefEvaluatorCarriesModel ==
    pcRule = "done" =>
        /\ \A i \in RuleRequests :
            LET evaluators == rule_requests[i].payload.evaluators
            IN \A j \in 1 .. Len(evaluators) :
                evaluators[j].hub_ref /= "None" => evaluators[j].model /= "None"
        /\ (rule.evaluator_prompt_handle /= "None" /\ rule.evaluators = <<>>
                /\ ~ModelObtainable) =>
            rule_requests = <<>> /\ rule_ret.tag \in {"none", "dry-run"}

(***************************************************************************)
(* C28: with dry_run enabled no migration of a dataset with its examples,  *)
(* an experiment, a run batch, a feedback record, an annotation queue, a   *)
(* rule, a chart or a prompt sends a POST, PATCH or PUT to the             *)
(* destination, whatever the destination holds and whether or not          *)
(* skip_existing is set; the destination is left as it was.                *)
(***************************************************************************)
C28_DryRunSendsNothing ==
    (config.dry_run /\ calls >= 1) =>
        /\ requests = <<>>
        /\ Len(dest) = before.resources
        /\ ExampleCount(dest) = before.examples

\* a dry run over a dataset with examples that the destination already
\* holds, skip_existing off: the update path
C28_Witness ==
    /\ config.dry_run
    /\ ~config.skip_existing
    /\ resource_kind = "dataset"
    /\ calls = 2
    /\ Len(source.examples) = MaxExamples
    /\ existing.made
    /\ existing.id /= 0
    /\ requests = <<>>

(***************************************************************************)
(* Properties of the run migration of one experiment                       *)
(***************************************************************************)

Position(r) == First({i \in 1 .. Len(processed) : processed[i] = r})

\* C21: however many pages the source returns, the runs of the experiment
\* are processed in ascending source dotted_order, so that every run with
\* a parent in the experiment is given its new ID after its parent.
C21_ProcessedInDottedOrder ==
    /\ \A i, j \in 1 .. Len(processed) :
        i < j => DottedLess(DottedOrderOf(processed[i]),
                            DottedOrderOf(processed[j]))
    /\ \A i \in 1 .. Len(processed) :
        ParentOf(processed[i]) /= 0 =>
            /\ Position(ParentOf(processed[i])) /= 0
            /\ Position(ParentOf(processed[i])) < i

\* the source run a written run was made from
SourceOf(w) == CHOOSE r \in DOMAIN run_ids : run_ids[r] = w.id

WrittenAs(r) == {i \in 1 .. Len(written) : written[i].id = MappedOr(run_ids, r, 0)}

\* C22: a written root run has its own new ID as trace_id; any other
\* written run has the trace_id written for its parent, which is the new ID
\* of the root of its tree.
C22_TraceIdOfRoot ==
    \A i \in 1 .. Len(written) :
        LET w == written[i]
            r == SourceOf(w)
        IN IF ParentOf(r) = 0
              THEN w.trace_id = w.id
              ELSE /\ w.trace_id = MappedOr(run_ids, TraceOf(r), 0)
                   /\ \A k \in WrittenAs(ParentOf(r)) :
                        w.trace_id = written[k].trace_id

\* C23: the regenerated dotted_order of a written run has the segments and
\* timestamps of the source's, the UUID of the last segment is the run's new
\* ID, and the UUID of each earlier segment is the new ID of the ancestor it
\* stands for; no source UUID is left.
C23_DottedOrderRegenerated ==
    \A i \in 1 .. Len(written) :
        LET w == written[i]
            old == DottedOrderOf(SourceOf(w))
            new == w.dotted_order
        IN /\ Len(new) = Len(old)
           /\ \A k \in 1 .. Len(old) : new[k][1] = old[k][1]
           /\ new[Len(new)][2] = w.id
           /\ \A k \in 1 .. Len(old) - 1 :
                /\ new[k][2] = MappedOr(run_ids, old[k][2], 0)
                /\ new[k][2] \notin RunIds

(***************************************************************************)
(* C27: in all-commits mode the commits of one prompt repo are pushed      *)
(* strictly root-to-tip: whatever the order in which the source lists      *)
(* them, every commit is pushed after its parent commit.                   *)
(***************************************************************************)
C27_PushedRootToTip ==
    pcPr = "commits" =>
        \A k \in 1 .. Len(pushes) :
            /\ \A j \in 1 .. k - 1 : pushes[j].commit < pushes[k].commit
            /\ ParentCommit(pushes[k].commit) /= 0 =>
                \E j \in 1 .. k - 1 :
                    pushes[j].commit = ParentCommit(pushes[k].commit)

(***************************************************************************)
(* C33: a rule that refers to a project the project map knows and to a     *)
(* dataset the dataset map does not know is skipped: create_rule sends no  *)
(* POST and no PATCH for it and returns None.                              *)
(***************************************************************************)
MappedProjectUnmappedDataset ==
    /\ pcRule = "done"
    /\ ~rule_env.dry_run
    /\ rule.session_id /= "None"
    /\ rule.dataset_id /= "None"
    /\ Get(build_project_mapping(rule_env, rule_args.ensure_project).map,
           rule.session_id) /= "None"
    /\ Get(build_dataset_mapping(rule_env), rule.dataset_id) = "None"

C33_UnmappedDatasetSkipsRule ==
    MappedProjectUnmappedDataset =>
        RuleRequests = {} /\ rule_ret = Ref("none", 0)

(***************************************************************************)
(* C34: the destination rule find_existing_rule returns has the sought     *)
(* name, and its dataset_id and its session_id both equal the sought       *)
(* scope; a rule of the same name with another dataset or another project  *)
(* is never taken for the rule being migrated.                             *)
(***************************************************************************)
\* the rules create_rule treated as existing: the one it updated and the
\* one whose ID it returned without writing
MatchedRules ==
    {rule_requests[i].id : i \in {j \in RuleRequests : rule_requests[j].method = "PATCH"}}
        \cup (IF rule_ret.tag = "id" /\ rule_ret.id <= Len(rule_env.listing)
                THEN {rule_ret.id} ELSE {})

\* the scope create_rule looked for: payload.get('session_id') and
\* payload.get('dataset_id')
SoughtScope ==
    rule_scope(rule, rule_args,
               build_project_mapping(rule_env, rule_args.ensure_project).map,
               build_dataset_mapping(rule_env))

C34_MatchHasSoughtScope ==
    pcRule = "done" =>
        \A k \in MatchedRules :
            /\ rule_env.listing[k].name = "n"
            /\ rule_env.listing[k].dataset_id = SoughtScope.dataset_id
            /\ rule_env.listing[k].session_id = SoughtScope.session_id

(***************************************************************************)
(* C35: a PATCH to /runs/rules/{id} carries only keys of the update field  *)
(* set, so group_by is never part of it, while the POST that creates a     *)
(* rule keeps the group_by of the rule.                                    *)
(***************************************************************************)
C35_GroupByOnlyOnCreate ==
    \A i \in RuleRequests :
        /\ rule_requests[i].method = "PATCH" => ~rule_requests[i].payload.group_by
        /\ rule_requests[i].method = "POST" =>
                rule_requests[i].payload.group_by = rule.group_by

\* a rule with group_by was found on the destination and updated
C35_Witness ==
    /\ pcRule = "done"
    /\ rule.group_by
    /\ \E i \in RuleRequests : rule_requests[i].method = "PATCH"

(***************************************************************************)
(* C36: with include_all_commits every commit pushed to the destination    *)
(* carries as parent_commit the latest commit hash the destination repo    *)
(* has at the moment of that push, never a hash of the source.             *)
(***************************************************************************)
C36_ParentIsDestinationLatest ==
    [][pushes' /= pushes =>
          pushes'[Len(pushes')].parent_commit = dest_latest]_vars

(***************************************************************************)
(* C38: every entry of the run ID-map migrate_runs_streaming returns       *)
(* refers to a run that was written to the destination; a run whose        *)
(* POST /runs/batch failed has no entry.                                   *)
(***************************************************************************)
C38_MappedRunsWereWritten ==
    pcT = "done" => \A r \in DOMAIN run_ids : WrittenAs(r) /= {}

(***************************************************************************)
(* C31: when the fetch of a page, the first or a later one, fails with the *)
(* AuthenticationError of a 401/403 answer, the error is raised to the     *)
(* caller of the listing; the listing does not end as if complete.         *)
(***************************************************************************)
C31_AuthenticationErrorReachesCaller ==
    lastFetch.shape = "authentication_error" => pcP = "raised"

(***************************************************************************)
(* C32: _extract_items gives the array itself for a bare array, the list   *)
(* under the key for an object with items / data / results, and a page of  *)
(* one element, the body, for an object with none of these keys.           *)
(***************************************************************************)
C32_ExtractedItems ==
    /\ lastFetch.shape \in {"array", "items", "data", "results"} => lastFetch.is_list
    /\ lastFetch.shape = "object" => lastFetch.is_body

(***************************************************************************)
(* C39: get_statistics, and with it the save of the session, succeeds for  *)
(* every session state whose items carry any of the five statuses; the     *)
(* overall status counts sum to the item total and, for each type, the     *)
(* by_type counts sum to the type's total.                                 *)
(***************************************************************************)
C39_StatisticsForEveryStatus ==
    /\ pcStat \in {"computed", "saved"} =>
            /\ ~statistics.raised
            /\ statistics.stats.completed + statistics.stats.failed
                    + statistics.stats.pending + statistics.stats.in_progress
                    + statistics.stats.skipped = statistics.stats.total
            /\ \A t \in DOMAIN statistics.by_type :
                    statistics.by_type[t].completed + statistics.by_type[t].failed
                        + statistics.by_type[t].pending = statistics.by_type[t].total
    /\ pcStat = "saved" => state_file.complete

(***************************************************************************)
(* C40: when migrate_datasets_parallel with experiments included has       *)
(* returned, the session file holds every experiment item with its final   *)
(* status (completed or failed) and its destination ID, and the            *)
(* experiment entries of the ID mappings.                                  *)
(***************************************************************************)
C40_ExperimentsOnDisk ==
    (pcS = "finished" /\ include_experiments) =>
        /\ \A k \in DOMAIN items :
              items[k].type = "experiment" =>
                /\ k \in DOMAIN disk.items
                /\ disk.items[k].status = StatusValue(items[k].status)
                /\ disk.items[k].status \in {"completed", "failed"}
                /\ disk.items[k].destination_id = items[k].destination_id
        /\ disk.id_mappings.experiment = id_mappings.experiment

(***************************************************************************)
(* C37: every temporary file created while an example attachment is        *)
(* downloaded has been removed when the migration of the examples is       *)
(* over: after a success, after a failed or interrupted download, after a  *)
(* failed create, and when the upload path raises before the examples are  *)
(* processed.                                                              *)
(***************************************************************************)
C37_TempFilesRemoved == pcAtt = "done" => temp_files = {}

====
